---- MODULE Spec2Model ----
(***************************************************************************)
(* Block-statistics / histogram library (Histogram class driving an        *)
(* OpenCL device) and the sequential reference path of the driver.         *)
(*                                                                         *)
(* Nine specifications share the variables below:                          *)
(*   Spec      the Histogram context: construction, setupEnvironment,     *)
(*             writeInputBuffers, the setters and calculateHistograms;     *)
(*   SpecGeom  calculateSizes and the two adjustDimension functions        *)
(*             applied to bounded image and block dimensions;              *)
(*   SpecRef   the reference histogram binner (calculateHistogram, both    *)
(*             overloads) applied to bounded per-block vectors;            *)
(*   SpecStat  calculateAverage, calculateVariance and                     *)
(*             calculateAverageAndVariance applied to bounded planes,      *)
(*             followed by the histogram passes, in the order of main();   *)
(*   SpecVal   validateVectorError applied to bounded pairs of vectors;    *)
(*   SpecSync  calculateHistograms(Detail) step by step, with the device   *)
(*             completing the commands of the command queue;               *)
(*   SpecConf  SpecSync with a second thread calling setImageSize or       *)
(*             setBlockSize, between calls or during one;                  *)
(*   SpecLife  the context through its life: copy construction,            *)
(*             setupEnvironment, the setters and calculateHistograms;      *)
(*   SpecErr   setupEnvironment and the calls after it on a device that    *)
(*             fails one of the OpenCL commands of the set-up.             *)
(*                                                                         *)
(* Real numbers (float/double averages and variances) are modelled as      *)
(* exact normalised fractions [num, den]; den = 0 marks an indeterminate   *)
(* value.  Integer values that are indeterminate (device memory that was   *)
(* never written) are modelled as -1.                                      *)
(***************************************************************************)
EXTENDS Integers, Sequences, FiniteSets, TLC

\* ------------------------------------------------------------------ bounds

\* SpecGeom: image and block dimensions range over 0..MaxDim
MaxDim == 6
\* SpecRef: numOfBins ranges over 1..MaxBins
MaxBins == 4
\* SpecRef: the per-block input vectors have at most MaxBlocks entries
MaxBlocks == 3
\* SpecRef: at most MaxPasses histogram passes over one bins vector
MaxPasses == 2
\* Spec: at most MaxDispatch dispatches accumulate into one set of histogram buffers
MaxDispatch == 1
\* Spec: a dispatch lasts 1..MaxTime time units
MaxTime == 1
\* SpecStat: planes are 1..MaxPlaneWidth wide and 1..MaxPlaneHeight high
MaxPlaneWidth == 5
MaxPlaneHeight == 3
\* SpecStat: block width and height range over 1..MaxBlock
MaxBlock == 3
\* SpecVal: the validated vectors have 0..MaxLen elements
MaxLen == 2
\* SpecVal: histogram counts range over 0..MaxCount
MaxCount == 2

\* ------------------------------------------------------- program constants

\* the histogram covers the value range [0, 256)
ValueRange == 256

\* ------------------------------------------------------------- real values

RECURSIVE GCD(_, _)
GCD(a, b) == IF b = 0 THEN a ELSE GCD(b, a % b)

\* the fraction n/d (n >= 0, d > 0) in lowest terms
Rat(n, d) == LET g == GCD(n, d) IN [num |-> n \div g, den |-> d \div g]

Zero == [num |-> 0, den |-> 1]
NaN == [num |-> 0, den |-> 0]
Indeterminate == 0 - 1

RatAdd(a, b) ==
    IF a.den = 0 \/ b.den = 0 THEN NaN
    ELSE Rat(a.num * b.den + b.num * a.den, a.den * b.den)

RECURSIVE RatSum(_)
RatSum(s) == IF s = <<>> THEN Zero ELSE RatAdd(Head(s), RatSum(Tail(s)))

RECURSIVE IntSum(_)
IntSum(s) == IF s = <<>> THEN 0 ELSE Head(s) + IntSum(Tail(s))

\* a freshly allocated std::vector<T>(n): n value-initialised elements
ZeroVector(n, zero) == [i \in 1..n |-> zero]

\* ---------------------------------------------------------------- geometry

\* integer division as the build executes it when it does not trap:
\* a zero divisor yields 0 (the non-trapping outcome of the undefined division)
Quot(a, b) == IF b = 0 THEN 0 ELSE a \div b

\* Histogram::adjustDimension (library method, with its zero guard)
adjustDimension(dimension, blockDimension) ==
    IF blockDimension = 0 THEN dimension
    ELSE dimension - (dimension % blockDimension)

\* calculateSizes divides by yBlockWidth, yBlockHeight, uBlockWidth, uBlockHeight
\* (and the v copies): one of them is zero exactly when a block dimension is < 2
DivisionByZero(bw, bh) == bw \div 2 = 0 \/ bh \div 2 = 0

\* calculateSizes with the chroma plane taken as wide as the luma plane
\* (GeometryFormulas tells the two apart)
calculateSizesFullWidth(W, H, bw, bh) ==
    [ ySize |-> W * H,
      uSize |-> W * (H \div 2),
      vSize |-> W * (H \div 2),
      imageSize |-> W * H + W * (H \div 2) + W * (H \div 2),
      yBlockWidth |-> bw,
      yBlockHeight |-> bh,
      yBlockSize |-> bw * bh,
      yNumOfBlocks |-> Quot(W, bw) * Quot(H, bh),
      uBlockWidth |-> bw \div 2,
      uBlockHeight |-> bh \div 2,
      uBlockSize |-> (bw \div 2) * (bh \div 2),
      uNumOfBlocks |-> Quot(W, bw \div 2) * Quot(H \div 2, bh \div 2),
      vBlockWidth |-> bw \div 2,
      vBlockHeight |-> bh \div 2,
      vBlockSize |-> (bw \div 2) * (bh \div 2),
      vNumOfBlocks |-> Quot(W, bw \div 2) * Quot(H \div 2, bh \div 2),
      globalRange |-> << adjustDimension(W \div 2, bw \div 2),
                         adjustDimension(H \div 2, bh \div 2) >>,
      localRange |-> << bw \div 2, bh \div 2 >> ]

\* Histogram::calculateSizes: every derived size, from the four configured dimensions
calculateSizes(W, H, bw, bh) ==
    [ ySize |-> W * H,
      uSize |-> (W \div 2) * (H \div 2),
      vSize |-> (W \div 2) * (H \div 2),
      imageSize |-> W * H + (W \div 2) * (H \div 2) + (W \div 2) * (H \div 2),
      yBlockWidth |-> bw,
      yBlockHeight |-> bh,
      yBlockSize |-> bw * bh,
      yNumOfBlocks |-> Quot(W, bw) * Quot(H, bh),
      uBlockWidth |-> bw \div 2,
      uBlockHeight |-> bh \div 2,
      uBlockSize |-> (bw \div 2) * (bh \div 2),
      uNumOfBlocks |-> Quot(W \div 2, bw \div 2) * Quot(H \div 2, bh \div 2),
      vBlockWidth |-> bw \div 2,
      vBlockHeight |-> bh \div 2,
      vBlockSize |-> (bw \div 2) * (bh \div 2),
      vNumOfBlocks |-> Quot(W \div 2, bw \div 2) * Quot(H \div 2, bh \div 2),
      globalRange |-> << adjustDimension(W \div 2, bw \div 2),
                         adjustDimension(H \div 2, bh \div 2) >>,
      localRange |-> << bw \div 2, bh \div 2 >> ]

\* the fields of the Histogram object that calculateSizes assigns, before it has run:
\* uninitialised ints (any value; two representatives)
UninitSizes ==
    { [ ySize |-> g, uSize |-> g, vSize |-> g, imageSize |-> g,
        yBlockWidth |-> g, yBlockHeight |-> g, yBlockSize |-> g, yNumOfBlocks |-> g,
        uBlockWidth |-> g, uBlockHeight |-> g, uBlockSize |-> g, uNumOfBlocks |-> g,
        vBlockWidth |-> g, vBlockHeight |-> g, vBlockSize |-> g, vNumOfBlocks |-> g,
        globalRange |-> <<>>, localRange |-> <<>> ] : g \in {0, 7} }

\* a driver that rounds the chroma plane up: ((W + 1) / 2) x ((H + 1) / 2)
\* (SameGeometry tells the two apart)
driverSizesRoundingUp(W, H, bw, bh) ==
    [ ySize |-> W * H,
      uSize |-> ((W + 1) \div 2) * ((H + 1) \div 2),
      vSize |-> ((W + 1) \div 2) * ((H + 1) \div 2),
      imageSize |-> W * H + ((W + 1) \div 2) * ((H + 1) \div 2) + ((W + 1) \div 2) * ((H + 1) \div 2),
      yBlockWidth |-> bw,
      yBlockHeight |-> bh,
      yBlockSize |-> bw * bh,
      yNumOfBlocks |-> Quot(W, bw) * Quot(H, bh),
      uBlockWidth |-> bw \div 2,
      uBlockHeight |-> bh \div 2,
      uBlockSize |-> (bw \div 2) * (bh \div 2),
      uNumOfBlocks |-> Quot((W + 1) \div 2, bw \div 2) * Quot((H + 1) \div 2, bh \div 2),
      vBlockWidth |-> bw \div 2,
      vBlockHeight |-> bh \div 2,
      vBlockSize |-> (bw \div 2) * (bh \div 2),
      vNumOfBlocks |-> Quot((W + 1) \div 2, bw \div 2) * Quot((H + 1) \div 2, bh \div 2) ]

\* the driver's geometry (main), computed from its IMG_WIDTH, IMG_HEIGHT,
\* BLOCK_WIDTH, BLOCK_HEIGHT constants, here as parameters
driverSizes(W, H, bw, bh) ==
    [ ySize |-> W * H,
      uSize |-> (W \div 2) * (H \div 2),
      vSize |-> (W \div 2) * (H \div 2),
      imageSize |-> W * H + (W \div 2) * (H \div 2) + (W \div 2) * (H \div 2),
      yBlockWidth |-> bw,
      yBlockHeight |-> bh,
      yBlockSize |-> bw * bh,
      yNumOfBlocks |-> Quot(W, bw) * Quot(H, bh),
      uBlockWidth |-> bw \div 2,
      uBlockHeight |-> bh \div 2,
      uBlockSize |-> (bw \div 2) * (bh \div 2),
      uNumOfBlocks |-> Quot(W \div 2, bw \div 2) * Quot(H \div 2, bh \div 2),
      vBlockWidth |-> bw \div 2,
      vBlockHeight |-> bh \div 2,
      vBlockSize |-> (bw \div 2) * (bh \div 2),
      vNumOfBlocks |-> Quot(W \div 2, bw \div 2) * Quot(H \div 2, bh \div 2) ]

\* ---------------------------------------------------------- reference path

\* imageVector[index] (0-based); a read outside the vector is indeterminate
ReadPixelNext(imageVector, index) ==
    IF index + 1 >= 0 /\ index + 1 < Len(imageVector) THEN imageVector[index + 2]
    ELSE Indeterminate

ReadPixel(imageVector, index) ==
    IF index >= 0 /\ index < Len(imageVector) THEN imageVector[index + 1]
    ELSE Indeterminate

\* (x, y) of the block cursor at the start of iteration `block` of the block loop
RECURSIVE BlockCursor(_, _, _, _)
BlockCursor(block, imageWidth, blockWidth, blockHeight) ==
    IF block = 0 THEN [x |-> 0, y |-> 0]
    ELSE LET c == BlockCursor(block - 1, imageWidth, blockWidth, blockHeight)
             x1 == c.x + blockWidth
         IN  IF x1 + blockWidth > imageWidth
             THEN [x |-> 0, y |-> c.y + blockHeight]
             ELSE [x |-> x1, y |-> c.y]

\* (i, j) of the pixel cursor at the start of iteration `pixel` of the pixel loop
RECURSIVE PixelCursor(_, _)
PixelCursor(pixel, blockWidth) ==
    IF pixel = 0 THEN [i |-> 0, j |-> 0]
    ELSE LET p == PixelCursor(pixel - 1, blockWidth)
         IN  IF p.j + 1 = blockWidth
             THEN [i |-> p.i + 1, j |-> 0]
             ELSE [i |-> p.i, j |-> p.j + 1]

\* the values read by the pixel loop of one block, in loop order
BlockPixels(imageVector, offset, imageWidth, blockSize, blockWidth) ==
    [ k \in 1..blockSize |->
        LET p == PixelCursor(k - 1, blockWidth)
        IN  ReadPixel(imageVector, p.i * imageWidth + p.j + offset) ]

BlockOffsetBlockStride(block, globalOffset, imageWidth, blockWidth, blockHeight) ==
    LET c == BlockCursor(block, imageWidth, blockWidth, blockHeight)
    IN  c.x + c.y * blockWidth + globalOffset

BlockOffset(block, globalOffset, imageWidth, blockWidth, blockHeight) ==
    LET c == BlockCursor(block, imageWidth, blockWidth, blockHeight)
    IN  c.x + c.y * imageWidth + globalOffset

HasIndeterminate(s) == \E k \in DOMAIN s : s[k] = Indeterminate

calculateAverageTruncating(imageVector, globalOffset, imageWidth, numOfBlocks, blockSize, blockWidth, blockHeight) ==
    [ b \in 1..numOfBlocks |->
        LET px == BlockPixels(imageVector,
                              BlockOffset(b - 1, globalOffset, imageWidth,
                                          blockWidth, blockHeight),
                              imageWidth, blockSize, blockWidth)
        IN  IF blockSize = 0 \/ HasIndeterminate(px) THEN NaN
            ELSE Rat(IntSum(px) \div blockSize, 1) ]

\* calculateAverage: the first numOfBlocks entries it writes into `average`
calculateAverage(imageVector, globalOffset, imageWidth, numOfBlocks, blockSize, blockWidth, blockHeight) ==
    [ b \in 1..numOfBlocks |->
        LET px == BlockPixels(imageVector,
                              BlockOffset(b - 1, globalOffset, imageWidth,
                                          blockWidth, blockHeight),
                              imageWidth, blockSize, blockWidth)
        IN  IF blockSize = 0 \/ HasIndeterminate(px) THEN NaN
            ELSE Rat(IntSum(px), blockSize) ]

calculateVarianceSample(imageVector, globalOffset, imageWidth, numOfBlocks, blockSize, blockWidth, blockHeight, average) ==
    [ b \in 1..numOfBlocks |->
        LET px == BlockPixels(imageVector,
                              BlockOffset(b - 1, globalOffset, imageWidth,
                                          blockWidth, blockHeight),
                              imageWidth, blockSize, blockWidth)
            a == average[b]
            sq == [ k \in 1..blockSize |->
                      (px[k] * a.den - a.num) * (px[k] * a.den - a.num) ]
        IN  IF blockSize <= 1 \/ a.den = 0 \/ HasIndeterminate(px) THEN NaN
            ELSE Rat(IntSum(sq), a.den * a.den * (blockSize - 1)) ]

\* calculateVariance: the first numOfBlocks entries it writes into `variance`;
\* the deviations are taken from the `average` vector it is handed
calculateVariance(imageVector, globalOffset, imageWidth, numOfBlocks, blockSize, blockWidth, blockHeight, average) ==
    [ b \in 1..numOfBlocks |->
        LET px == BlockPixels(imageVector,
                              BlockOffset(b - 1, globalOffset, imageWidth,
                                          blockWidth, blockHeight),
                              imageWidth, blockSize, blockWidth)
            a == average[b]
            sq == [ k \in 1..blockSize |->
                      (px[k] * a.den - a.num) * (px[k] * a.den - a.num) ]
        IN  IF blockSize = 0 \/ a.den = 0 \/ HasIndeterminate(px) THEN NaN
            ELSE Rat(IntSum(sq), a.den * a.den * blockSize) ]

\* the pixel indices read by the pixel loop of one block, in loop order
BlockReads(offset, imageWidth, blockSize, blockWidth) ==
    [ k \in 1..blockSize |->
        LET p == PixelCursor(k - 1, blockWidth)
        IN  p.i * imageWidth + p.j + offset ]

\* the block loop of calculateAverage / calculateVariance: per block the cursor
\* (x, y), the offset derived from it and the indices of imageVector it reads
BlockLoop(globalOffset, imageWidth, numOfBlocks, blockSize, blockWidth, blockHeight) ==
    [ b \in 1..numOfBlocks |->
        LET c == BlockCursor(b - 1, imageWidth, blockWidth, blockHeight)
            offset == BlockOffset(b - 1, globalOffset, imageWidth, blockWidth, blockHeight)
        IN  [ x |-> c.x, y |-> c.y, offset |-> offset,
              reads |-> BlockReads(offset, imageWidth, blockSize, blockWidth) ] ]

\* calculateAverageAndVariance without "i = 0; j = 0;" before its second pixel
\* loop: the deviations are taken over the rows below the block
calculateAverageAndVarianceNoReset(imageVector, globalOffset, imageWidth, numOfBlocks, blockSize, blockWidth, blockHeight) ==
    LET px(b) == BlockPixels(imageVector, BlockOffset(b - 1, globalOffset, imageWidth, blockWidth, blockHeight), imageWidth, blockSize, blockWidth)
        below(b) == BlockPixels(imageVector, BlockOffset(b - 1, globalOffset, imageWidth, blockWidth, blockHeight) + blockHeight * imageWidth, imageWidth, blockSize, blockWidth)
        avg(b) == IF blockSize = 0 \/ HasIndeterminate(px(b)) THEN NaN
                  ELSE Rat(IntSum(px(b)), blockSize)
        sq(b) == [ k \in 1..blockSize |->
                     (below(b)[k] * avg(b).den - avg(b).num) * (below(b)[k] * avg(b).den - avg(b).num) ]
        var(b) == IF avg(b).den = 0 \/ HasIndeterminate(below(b)) THEN NaN
                  ELSE Rat(IntSum(sq(b)), avg(b).den * avg(b).den * blockSize)
    IN  [ average  |-> [ b \in 1..numOfBlocks |-> avg(b) ],
          variance |-> [ b \in 1..numOfBlocks |-> var(b) ] ]

\* calculateAverageAndVariance: both pixel loops per block, the second one
\* about the average the first one has just stored
calculateAverageAndVariance(imageVector, globalOffset, imageWidth, numOfBlocks, blockSize, blockWidth, blockHeight) ==
    LET px(b) == BlockPixels(imageVector, BlockOffset(b - 1, globalOffset, imageWidth, blockWidth, blockHeight), imageWidth, blockSize, blockWidth)
        avg(b) == IF blockSize = 0 \/ HasIndeterminate(px(b)) THEN NaN
                  ELSE Rat(IntSum(px(b)), blockSize)
        sq(b) == [ k \in 1..blockSize |->
                     (px(b)[k] * avg(b).den - avg(b).num) * (px(b)[k] * avg(b).den - avg(b).num) ]
        var(b) == IF avg(b).den = 0 THEN NaN
                  ELSE Rat(IntSum(sq(b)), avg(b).den * avg(b).den * blockSize)
    IN  [ average  |-> [ b \in 1..numOfBlocks |-> avg(b) ],
          variance |-> [ b \in 1..numOfBlocks |-> var(b) ] ]

(***************************************************************************)
(* validateVectorError<T, U>, as main() instantiates it: T = float and     *)
(* U = double for the averages, variances and variance histograms (real    *)
(* arithmetic), T = U = int for the average histograms (int arithmetic).   *)
(***************************************************************************)

\* abs(a - b) for doubles
RatAbsDiff(a, b) ==
    IF a.den = 0 \/ b.den = 0 THEN NaN
    ELSE IF a.num * b.den >= b.num * a.den
         THEN Rat(a.num * b.den - b.num * a.den, a.den * b.den)
         ELSE Rat(b.num * a.den - a.num * b.den, a.den * b.den)

\* a / b for non-negative doubles: 0.0 / 0.0 is NaN
RatDiv(a, b) ==
    IF a.den = 0 \/ b.den = 0 \/ b.num = 0 THEN NaN
    ELSE Rat(a.num * b.den, a.den * b.num)

\* abs(a - b) for ints
IntAbsDiff(a, b) == IF a >= b THEN a - b ELSE b - a

\* validatingVector[i] != 0
NonZero(T, v) == IF T = "int" THEN v # 0 ELSE v.num # 0

\* abs(validatingVector[i] - input[i]) / validatingVector[i], converted to
\* double when it is added to sum: an int quotient in the int instantiation
ErrorTerm(T, v, in) ==
    IF T = "int" THEN Rat(IntAbsDiff(v, in) \div v, 1)
    ELSE RatDiv(RatAbsDiff(v, in), v)

\* the loop of validateVectorError: sum after all indices
ErrorSum(T, input, validatingVector) ==
    RatSum([ i \in DOMAIN input |->
               IF NonZero(T, validatingVector[i])
               THEN ErrorTerm(T, validatingVector[i], input[i])
               ELSE Zero ])

\* double error = sum / input.size() * 100
ErrorPercent(T, input, validatingVector) ==
    LET sum == ErrorSum(T, input, validatingVector)
    IN  IF sum.den = 0 \/ Len(input) = 0 THEN NaN
        ELSE Rat(sum.num * 100, sum.den * Len(input))

\* the branch taken on error: every comparison with NaN is false
Classify(error) ==
    IF error.den # 0 /\ error.num = 0 THEN "PASS"
    ELSE IF error.den # 0 /\ error.num < error.den THEN "PASS... Error"
    ELSE "FAIL... Error"

\* int interval = input[i] / binSize, with binSize = 256 / numOfBins
BinIndex(v, numOfBins) == v.num \div (v.den * (ValueRange \div numOfBins))

\* some iteration of the histogram loop writes outside the bins vector
HistogramOutOfRange(input, numOfBins, bins) ==
    \E i \in 1..Len(input) : BinIndex(input[i], numOfBins) >= Len(bins)

\* calculateHistogram(input, numOfBins, bins): the bins vector after the loop
\* (a write outside the vector leaves the vector as it is)
RECURSIVE calculateHistogram(_, _, _)
calculateHistogram(input, numOfBins, bins) ==
    IF input = <<>> THEN bins
    ELSE LET interval == BinIndex(Head(input), numOfBins)
             next == IF interval < Len(bins)
                     THEN [bins EXCEPT ![interval + 1] = @ + 1]
                     ELSE bins
         IN  calculateHistogram(Tail(input), numOfBins, next)

\* calculateHistogram(input, numOfBins, bins, increment): the bins vector after the loop
RECURSIVE calculateHistogramWeighted(_, _, _, _)
calculateHistogramWeighted(input, numOfBins, bins, increment) ==
    IF input = <<>> THEN bins
    ELSE LET interval == BinIndex(Head(input), numOfBins)
             next == IF interval < Len(bins)
                     THEN [bins EXCEPT ![interval + 1] = RatAdd(@, Head(increment))]
                     ELSE bins
         IN  calculateHistogramWeighted(Tail(input), numOfBins, next, Tail(increment))


\* ------------------------------------------------------------------- state

VARIABLES
    \* Histogram object: control and configuration
    environmentSetUp, imgWidth, imgHeight, blockWidth, blockHeight, numOfBins,
    color, showErrors, elapsedTime, clError,
    \* Histogram object: channel details and ranges (assigned by calculateSizes)
    sizes,
    \* Histogram object: output vectors, one per channel
    average, variance, averageBins, varianceBins,
    \* device: input and output buffers
    imageBuffer, numOfBinsBuffer, averageBuffer, varianceBuffer,
    averageHistBuffer, varianceHistBuffer,
    \* process: "running" or "crashed"; the last call and the device commands it issued
    status, lastOp, deviceOps,
    \* adjustDimension applied: [dimension, blockDimension, library, free]
    adjusted,
    \* geometry computed by the driver's main
    driver,
    \* reference binner: input, increment, numOfBins, the two bins vectors,
    \* the number of passes made over each, and whether a write fell outside a vector
    refInput, refIncrement, refNumOfBins, refBins, refVarBins, refPasses, refVarPasses,
    refOutside,
    \* reference statistics: the arguments of the calculateAverage / calculateVariance
    \* calls of one channel, the blocks and pixel indices the last call read, the
    \* functions applied so far, and the output of calculateAverageAndVariance
    refPlane, refVisited, refDone, refCombined,
    \* validateVectorError applied: its arguments, the error and the verdict printed
    validation,
    \* calculateHistograms step by step: the host's position in the call, the
    \* commands the device has accepted and not completed (in queue order), and
    \* the read-backs the call has still to issue
    pc, inFlight, toRead,
    \* device environment: the OpenCL objects of the Histogram object whose creation
    \* failed, the lines the last call wrote to std::cout, and the device operations
    \* of the last call that returned a negative status
    unbound, output, failures,
    \* a second thread that calls setImageSize or setBlockSize while a call of
    \* calculateHistograms may be in progress: the call and the statement it has reached
    setter

configVars == << imgWidth, imgHeight, blockWidth, blockHeight, numOfBins, color, showErrors >>
hostVars == << average, variance, averageBins, varianceBins >>
inputBufferVars == << imageBuffer, numOfBinsBuffer >>
outputBufferVars == << averageBuffer, varianceBuffer, averageHistBuffer, varianceHistBuffer >>
libVars == << environmentSetUp, configVars, elapsedTime, clError, sizes, hostVars, inputBufferVars, outputBufferVars >>
geomVars == << adjusted, driver >>
statVars == << refPlane, refVisited, refDone, refCombined >>
valVars == << validation >>
syncVars == << pc, inFlight, toRead >>
errVars == << unbound, output, failures >>
refVars == << refInput, refIncrement, refNumOfBins, refBins, refVarBins, refPasses, refVarPasses, refOutside, statVars, valVars, syncVars >>
vars == << libVars, status, lastOp, deviceOps, geomVars, errVars, setter, refVars >>

Channels == {"Y", "U", "V"}
ChannelOrder == << "Y", "U", "V" >>
Colors == {"Chromatic", "Grayscale"}

\* the channels a dispatch computes and calculateHistograms reads back
ActiveChannelsAll(c) == Channels

ActiveChannels(c) == IF c = "Chromatic" THEN Channels ELSE {"Y"}

\* yNumOfBlocks, uNumOfBlocks, vNumOfBlocks by channel
NumOfBlocks(s, ch) ==
    IF ch = "Y" THEN s.yNumOfBlocks ELSE IF ch = "U" THEN s.uNumOfBlocks ELSE s.vNumOfBlocks

\* ---------------------------------------------------------- device runtime

\* a cl::Buffer that holds no memory object (default-constructed, or its creation failed)
Null == << >>

Failed(e) == e \notin {"unset", "CL_SUCCESS"}

\* cl::Buffer(context, flags, n elements): fails without a context and for size 0;
\* fresh device memory is indeterminate
CreateBuffer(hasContext, n, fill) ==
    IF hasContext /\ n > 0 THEN [i \in 1..n |-> fill] ELSE Null

\* enqueueWriteBuffer(buffer, CL_TRUE, 0, n elements, host): the buffer afterwards
WriteBuffer(hasQueue, buffer, n, host) ==
    IF hasQueue /\ buffer # Null /\ n > 0 /\ n <= Len(buffer)
    THEN [i \in 1..Len(buffer) |-> IF i <= n THEN host[i] ELSE buffer[i]]
    ELSE buffer

\* enqueueReadBuffer(buffer, CL_TRUE, 0, n elements, host): the host vector afterwards;
\* a region that is empty or exceeds the buffer is rejected (CL_INVALID_VALUE)
ReadBuffer(buffer, n, host) ==
    IF buffer # Null /\ n > 0 /\ n <= Len(buffer)
    THEN [i \in 1..Len(host) |-> IF i <= n THEN buffer[i] ELSE host[i]]
    ELSE host

TransferStatus(hasQueue, buffer, n) ==
    IF ~hasQueue THEN "CL_INVALID_COMMAND_QUEUE"
    ELSE IF buffer = Null THEN "CL_INVALID_MEM_OBJECT"
    ELSE IF n = 0 \/ n > Len(buffer) THEN "CL_INVALID_VALUE"
    ELSE "CL_SUCCESS"

\* a read-back of n elements would write past the end of the host vector
ReadOverrunsHost(buffer, n, host) ==
    buffer # Null /\ n > 0 /\ n <= Len(buffer) /\ n > Len(host)

\* a device command issued by a call
Cmd(op, buffer, channel) == [op |-> op, buffer |-> buffer, channel |-> channel]
PerChannel(op, buffer) == [k \in 1..3 |-> Cmd(op, buffer, ChannelOrder[k])]

\* -------------------------------------------------- Histogram: allocation

\* Histogram::createOutputVectors: the twelve output vectors, value-initialised
createOutputVectors(s, nb) ==
    [ average |-> [ch \in Channels |-> ZeroVector(NumOfBlocks(s, ch), Zero)],
      variance |-> [ch \in Channels |-> ZeroVector(NumOfBlocks(s, ch), Zero)],
      averageBins |-> [ch \in Channels |-> ZeroVector(nb, 0)],
      varianceBins |-> [ch \in Channels |-> ZeroVector(nb, Zero)] ]

\* Histogram::createInputBuffers: imageBuffer and numOfBinsBuffer, never written
createInputBuffers(hasContext, s) ==
    [ imageBuffer |-> CreateBuffer(hasContext, s.imageSize, Indeterminate),
      numOfBinsBuffer |-> CreateBuffer(hasContext, 1, Indeterminate) ]

createInputBuffersCmds == << Cmd("create", "imageBuffer", "-"), Cmd("create", "numOfBinsBuffer", "-") >>

\* Histogram::createOutputBuffers: the twelve output buffers; the six histogram
\* buffers are then initialised from the host bins vectors
createOutputBuffers(hasContext, s, nb, avgBins, varBins) ==
    [ averageBuffer |-> [ch \in Channels |-> CreateBuffer(hasContext, NumOfBlocks(s, ch), NaN)],
      varianceBuffer |-> [ch \in Channels |-> CreateBuffer(hasContext, NumOfBlocks(s, ch), NaN)],
      averageHistBuffer |->
          [ch \in Channels |->
              WriteBuffer(hasContext, CreateBuffer(hasContext, nb, Indeterminate), nb, avgBins[ch])],
      varianceHistBuffer |->
          [ch \in Channels |->
              WriteBuffer(hasContext, CreateBuffer(hasContext, nb, NaN), nb, varBins[ch])] ]

createOutputBuffersCmds ==
    PerChannel("create", "AverageBuffer") \o PerChannel("create", "VarianceBuffer")
    \o PerChannel("create", "AverageHistBuffer") \o PerChannel("create", "VarianceHistBuffer")
    \o PerChannel("write", "AverageHistBuffer") \o PerChannel("write", "VarianceHistBuffer")

\* clError after createOutputBuffers: the status of its last write (vVarianceHistBuffer)
createOutputBuffersStatus(hasContext, nb) ==
    TransferStatus(hasContext, CreateBuffer(hasContext, nb, NaN), nb)

\* the integer division by zero in calculateSizes traps: the process ends
Trap(op) ==
    /\ status' = "crashed"
    /\ lastOp' = op
    /\ deviceOps' = << >>
    /\ UNCHANGED << libVars, geomVars, setter, errVars, refVars >>

\* calculateSizes, [createInputBuffers,] createOutputVectors, createOutputBuffers:
\* the common tail of setupEnvironment, setImageSize and setBlockSize
Allocate(hasContext, W, H, bw, bh, inputs) ==
    LET s == calculateSizes(W, H, bw, bh)
        v == createOutputVectors(s, numOfBins)
        o == createOutputBuffers(hasContext, s, numOfBins, v.averageBins, v.varianceBins)
        i == createInputBuffers(hasContext, s)
    IN  /\ sizes' = s
        /\ IF inputs
           THEN imageBuffer' = i.imageBuffer /\ numOfBinsBuffer' = i.numOfBinsBuffer
           ELSE UNCHANGED inputBufferVars
        /\ average' = v.average
        /\ variance' = v.variance
        /\ averageBins' = v.averageBins
        /\ varianceBins' = v.varianceBins
        /\ averageBuffer' = o.averageBuffer
        /\ varianceBuffer' = o.varianceBuffer
        /\ averageHistBuffer' = o.averageHistBuffer
        /\ varianceHistBuffer' = o.varianceHistBuffer
        /\ clError' = createOutputBuffersStatus(hasContext, numOfBins)
        /\ deviceOps' = (IF inputs THEN createInputBuffersCmds ELSE << >>) \o createOutputBuffersCmds

\* ----------------------------------------------------- Histogram: methods

\* Histogram::setupEnvironment (platform, context, queue, program and kernels are
\* taken to be available; then sizes, buffers and vectors)
setupEnvironment ==
    /\ status = "running"
    /\ \/ /\ DivisionByZero(blockWidth, blockHeight)
          /\ Trap("setupEnvironment")
       \/ /\ Allocate(TRUE, imgWidth, imgHeight, blockWidth, blockHeight, TRUE)
          /\ environmentSetUp' = TRUE
          /\ status' = status
          /\ lastOp' = "setupEnvironment"
          /\ UNCHANGED << configVars, elapsedTime, geomVars, setter, errVars, refVars >>

\* Histogram::writeInputBuffers (both overloads): the frame, then numOfBins
writeInputBuffers(imageVector) ==
    /\ status = "running"
    /\ imageBuffer' = WriteBuffer(environmentSetUp, imageBuffer, sizes.imageSize, imageVector)
    /\ numOfBinsBuffer' = WriteBuffer(environmentSetUp, numOfBinsBuffer, 1, << numOfBins >>)
    /\ clError' = IF environmentSetUp THEN "CL_SUCCESS" ELSE "CL_INVALID_COMMAND_QUEUE"
    /\ deviceOps' = << Cmd("write", "imageBuffer", "-"), Cmd("write", "numOfBinsBuffer", "-") >>
    /\ lastOp' = "writeInputBuffers"
    /\ UNCHANGED << environmentSetUp, configVars, elapsedTime, sizes, hostVars, outputBufferVars, status, geomVars, setter, errVars, refVars >>

\* Histogram::setImageSize
setImageSize(w, h) ==
    /\ status = "running"
    /\ \/ /\ DivisionByZero(blockWidth, blockHeight)
          /\ Trap("setImageSize")
       \/ /\ imgWidth' = w
          /\ imgHeight' = h
          /\ Allocate(environmentSetUp, w, h, blockWidth, blockHeight, TRUE)
          /\ status' = status
          /\ lastOp' = "setImageSize"
          /\ UNCHANGED << environmentSetUp, blockWidth, blockHeight, numOfBins, color, showErrors, elapsedTime, geomVars, setter, errVars, refVars >>

\* setBlockSize that only stores the block dimensions, leaving sizes, vectors and
\* buffers as they were (DerivedStateIsFresh tells the two apart)
setBlockSizeOnly(bw, bh) ==
    /\ status = "running"
    /\ blockWidth' = bw
    /\ blockHeight' = bh
    /\ lastOp' = "setBlockSize"
    /\ deviceOps' = << >>
    /\ UNCHANGED << environmentSetUp, imgWidth, imgHeight, numOfBins, color, showErrors, elapsedTime, clError, sizes, hostVars, inputBufferVars, outputBufferVars, status, geomVars, setter, errVars, refVars >>

\* Histogram::setBlockSize
setBlockSize(bw, bh) ==
    /\ status = "running"
    /\ \/ /\ DivisionByZero(bw, bh)
          /\ Trap("setBlockSize")
       \/ /\ blockWidth' = bw
          /\ blockHeight' = bh
          /\ Allocate(environmentSetUp, imgWidth, imgHeight, bw, bh, FALSE)
          /\ status' = status
          /\ lastOp' = "setBlockSize"
          /\ UNCHANGED << environmentSetUp, imgWidth, imgHeight, numOfBins, color, showErrors, elapsedTime, geomVars, setter, errVars, refVars >>

\* Histogram::setNumofBins
setNumofBins(n) ==
    /\ status = "running"
    /\ numOfBins' = n
    /\ lastOp' = "setNumofBins"
    /\ deviceOps' = << >>
    /\ UNCHANGED << environmentSetUp, imgWidth, imgHeight, blockWidth, blockHeight, color, showErrors, elapsedTime, clError, sizes, hostVars, inputBufferVars, outputBufferVars, status, geomVars, setter, errVars, refVars >>

\* Histogram::setErrorLevel
setErrorLevel(errorLevel) ==
    /\ status = "running"
    /\ showErrors' = (errorLevel # "NoError")
    /\ lastOp' = "setErrorLevel"
    /\ deviceOps' = << >>
    /\ UNCHANGED << environmentSetUp, imgWidth, imgHeight, blockWidth, blockHeight, numOfBins, color, elapsedTime, clError, sizes, hostVars, inputBufferVars, outputBufferVars, status, geomVars, setter, errVars, refVars >>

\* ------------------------------------------------------------ the kernels
\* (histogram_kernel.cl: per active channel the block statistics of the reference
\* path over the frame in imageBuffer, binned with the bin count in numOfBinsBuffer
\* and added to the histogram buffers as they are on the device)

ChannelOffset(s, ch) ==
    IF ch = "Y" THEN 0 ELSE IF ch = "U" THEN s.ySize ELSE s.ySize + s.uSize

ChannelWidth(W, ch) == IF ch = "Y" THEN W ELSE W \div 2

ChannelBlock(s, ch) ==
    IF ch = "Y" THEN [size |-> s.yBlockSize, width |-> s.yBlockWidth, height |-> s.yBlockHeight]
    ELSE IF ch = "U" THEN [size |-> s.uBlockSize, width |-> s.uBlockWidth, height |-> s.uBlockHeight]
    ELSE [size |-> s.vBlockSize, width |-> s.vBlockWidth, height |-> s.vBlockHeight]

KernelAverage(data, W, s, ch) ==
    LET b == ChannelBlock(s, ch)
    IN  calculateAverage(data, ChannelOffset(s, ch), ChannelWidth(W, ch), NumOfBlocks(s, ch), b.size, b.width, b.height)

KernelVariance(data, W, s, ch) ==
    LET b == ChannelBlock(s, ch)
    IN  calculateVariance(data, ChannelOffset(s, ch), ChannelWidth(W, ch), NumOfBlocks(s, ch), b.size, b.width, b.height, KernelAverage(data, W, s, ch))

\* the frame and the bin count on the device have been written
InputsWritten(image, bins) ==
    /\ image # Null
    /\ ~HasIndeterminate(image)
    /\ bins # Null
    /\ ~HasIndeterminate(bins)

KernelAverageHist(written, data, nb, W, s, ch, hist) ==
    IF ~written \/ HasIndeterminate(hist) THEN [i \in 1..Len(hist) |-> Indeterminate]
    ELSE calculateHistogram(KernelAverage(data, W, s, ch), nb, hist)

KernelVarianceHist(written, data, nb, W, s, ch, hist) ==
    IF ~written THEN [i \in 1..Len(hist) |-> NaN]
    ELSE calculateHistogramWeighted(KernelAverage(data, W, s, ch), nb, hist, KernelVariance(data, W, s, ch))

\* ---------------------------------------------- Histogram: the computation

\* enqueueNDRangeKernel accepts the launch: both ranges are positive
DispatchValid(s) ==
    /\ Len(s.localRange) = 2
    /\ \A d \in 1..2 : s.localRange[d] > 0 /\ s.globalRange[d] > 0

\* the read-backs of calculateHistograms, in program order
ReadCmds(c, detail) ==
    (IF detail = "Include"
     THEN << Cmd("read", "AverageBuffer", "Y"), Cmd("read", "VarianceBuffer", "Y") >>
          \o (IF c = "Chromatic"
              THEN << Cmd("read", "AverageBuffer", "U"), Cmd("read", "VarianceBuffer", "U"),
                      Cmd("read", "AverageBuffer", "V"), Cmd("read", "VarianceBuffer", "V") >>
              ELSE << >>)
     ELSE << >>)
    \o << Cmd("read", "AverageHistBuffer", "Y"), Cmd("read", "VarianceHistBuffer", "Y") >>
    \o (IF c = "Chromatic"
        THEN << Cmd("read", "AverageHistBuffer", "U"), Cmd("read", "AverageHistBuffer", "V"),
                Cmd("read", "VarianceHistBuffer", "U"), Cmd("read", "VarianceHistBuffer", "V") >>
        ELSE << >>)

\* the kernel calculateHistograms(Detail) selects and sets the arguments of
KernelName(c, detail) ==
    IF c = "Chromatic"
    THEN IF detail = "Exclude" THEN "histogramsKernel" ELSE "histogramsDetailKernel"
    ELSE IF detail = "Exclude" THEN "singleChannelKernel" ELSE "singleChannelDetailKernel"

\* the output buffers once the dispatched kernel has run (ok: the launch was
\* accepted): only the buffers handed to the selected kernel change
KernelRun(detail, ok) ==
    LET act == ActiveChannels(color)
        written == InputsWritten(imageBuffer, numOfBinsBuffer)
        nb == IF written THEN numOfBinsBuffer[1] ELSE 1
    IN  [ averageBuffer |-> [ch \in Channels |->
                      IF ok /\ ch \in act /\ detail = "Include"
                      THEN IF written THEN KernelAverage(imageBuffer, imgWidth, sizes, ch)
                           ELSE [i \in 1..Len(averageBuffer[ch]) |-> NaN]
                      ELSE averageBuffer[ch]],
          varianceBuffer |-> [ch \in Channels |->
                      IF ok /\ ch \in act /\ detail = "Include"
                      THEN IF written THEN KernelVariance(imageBuffer, imgWidth, sizes, ch)
                           ELSE [i \in 1..Len(varianceBuffer[ch]) |-> NaN]
                      ELSE varianceBuffer[ch]],
          averageHistBuffer |-> [ch \in Channels |->
                      IF ok /\ ch \in act
                      THEN KernelAverageHist(written, imageBuffer, nb, imgWidth, sizes, ch, averageHistBuffer[ch])
                      ELSE averageHistBuffer[ch]],
          varianceHistBuffer |-> [ch \in Channels |->
                      IF ok /\ ch \in act
                      THEN KernelVarianceHist(written, imageBuffer, nb, imgWidth, sizes, ch, varianceHistBuffer[ch])
                      ELSE varianceHistBuffer[ch]] ]

\* the body of calculateHistograms(Detail) after the environmentSetUp check:
\* timer reset, kernel arguments, one dispatch, wait, elapsed time, read-backs
\* (hasQueue, hasKernel: the command queue and the selected kernel are valid objects)
ComputeOn(detail, t, hasQueue, hasKernel) ==
    LET act == ActiveChannels(color)
        ok == hasQueue /\ hasKernel /\ DispatchValid(sizes)
        out == KernelRun(detail, ok)
        avgBuf == out.averageBuffer
        varBuf == out.varianceBuffer
        avgHist == out.averageHistBuffer
        varHist == out.varianceHistBuffer
        last == IF color = "Chromatic" THEN "V" ELSE "Y"
    IN  /\ elapsedTime' = IF ok THEN t ELSE 0
        /\ averageBuffer' = avgBuf
        /\ varianceBuffer' = varBuf
        /\ averageHistBuffer' = avgHist
        /\ varianceHistBuffer' = varHist
        /\ average' = [ch \in Channels |->
                          IF detail = "Include" /\ ch \in act /\ hasQueue
                          THEN ReadBuffer(avgBuf[ch], NumOfBlocks(sizes, ch), average[ch])
                          ELSE average[ch]]
        /\ variance' = [ch \in Channels |->
                          IF detail = "Include" /\ ch \in act /\ hasQueue
                          THEN ReadBuffer(varBuf[ch], NumOfBlocks(sizes, ch), variance[ch])
                          ELSE variance[ch]]
        /\ averageBins' = [ch \in Channels |->
                          IF ch \in act /\ hasQueue THEN ReadBuffer(avgHist[ch], numOfBins, averageBins[ch])
                          ELSE averageBins[ch]]
        /\ varianceBins' = [ch \in Channels |->
                          IF ch \in act /\ hasQueue THEN ReadBuffer(varHist[ch], numOfBins, varianceBins[ch])
                          ELSE varianceBins[ch]]
        /\ clError' = TransferStatus(hasQueue, varHist[last], numOfBins)
        /\ deviceOps' = << Cmd("kernel", KernelName(color, detail), IF ok THEN "run" ELSE "rejected") >> \o ReadCmds(color, detail)

Compute(detail, t) == ComputeOn(detail, t, TRUE, TRUE)

\* fewer than MaxDispatch dispatches have accumulated into the Y average histogram buffer
WithinCount == IntSum(averageHistBuffer["Y"]) < MaxDispatch * sizes.yNumOfBlocks \/ ~DispatchValid(sizes)

\* calculateHistograms(Detail) without its environmentSetUp check
\* (UnpreparedCalculateIsNoOp tells the two apart)
calculateHistogramsUnchecked(detail) ==
    /\ status = "running"
    /\ lastOp' = "calculateHistograms"
    /\ WithinCount
    /\ \E t \in 1..MaxTime : Compute(detail, t)
    /\ UNCHANGED << environmentSetUp, configVars, sizes, inputBufferVars, status, geomVars, setter, errVars, refVars >>

\* Histogram::calculateHistograms(Detail detail)
calculateHistograms(detail) ==
    /\ status = "running"
    /\ lastOp' = "calculateHistograms"
    /\ IF ~environmentSetUp
       THEN /\ deviceOps' = << >>
            /\ UNCHANGED << elapsedTime, clError, hostVars, outputBufferVars >>
       ELSE /\ WithinCount
            /\ \E t \in 1..MaxTime : Compute(detail, t)
    /\ UNCHANGED << environmentSetUp, configVars, sizes, inputBufferVars, status, geomVars, setter, errVars, refVars >>

calculateHistogramsDefaultInclude ==
    /\ status = "running"
    /\ IF ~environmentSetUp
       THEN /\ lastOp' = "calculateHistograms"
            /\ deviceOps' = << >>
            /\ UNCHANGED << libVars, status, geomVars, setter, errVars, refVars >>
       ELSE calculateHistograms("Include")

\* Histogram::calculateHistograms(): the check, then calculateHistograms(Detail::Exclude)
calculateHistogramsDefault ==
    /\ status = "running"
    /\ IF ~environmentSetUp
       THEN /\ lastOp' = "calculateHistograms"
            /\ deviceOps' = << >>
            /\ UNCHANGED << libVars, status, geomVars, setter, errVars, refVars >>
       ELSE calculateHistograms("Exclude")

\* -------------------------------------------------------------- inputs

\* Spec: image dimensions, block dimensions, bin counts and pixel values of the calls
\* (block 4x2 fits image 4x2 once and image 2x2 not at all; block 1x2 has a
\* chroma block width of 0)
ImgSizes == { << 4, 2 >>, << 2, 2 >> }
BlockSizes == { << 2, 2 >>, << 4, 2 >>, << 1, 2 >> }
BinCounts == {2, 4}
Details == {"Exclude", "Include"}
ErrorLevels == {"NoError", "ShowError"}

\* frames of n pixels: 255 throughout, or 0 and 255 alternating
Frames(n) == { [i \in 1..n |-> 255], [i \in 1..n |-> IF i % 2 = 1 THEN 0 ELSE 255] }

\* SpecRef: per-block averages and variances handed to the binner
AvgValues == { Zero, Rat(127, 2), Rat(255, 1) }
VarValues == { Zero, Rat(5, 2) }

\* ------------------------------------------------------- initial states

\* the object after Histogram(format, color, imgWidth, imgHeight, blockWidth, blockHeight, numOfBins)
Histogram(c, W, H, bw, bh, nb, s) ==
    /\ imgWidth = W
    /\ imgHeight = H
    /\ blockWidth = bw
    /\ blockHeight = bh
    /\ numOfBins = nb
    /\ color = c
    /\ elapsedTime = 0
    /\ showErrors = FALSE
    /\ environmentSetUp = FALSE
    /\ clError = "unset"
    /\ sizes = s
    /\ average = [ch \in Channels |-> << >>]
    /\ variance = [ch \in Channels |-> << >>]
    /\ averageBins = [ch \in Channels |-> << >>]
    /\ varianceBins = [ch \in Channels |-> << >>]
    /\ imageBuffer = Null
    /\ numOfBinsBuffer = Null
    /\ averageBuffer = [ch \in Channels |-> Null]
    /\ varianceBuffer = [ch \in Channels |-> Null]
    /\ averageHistBuffer = [ch \in Channels |-> Null]
    /\ varianceHistBuffer = [ch \in Channels |-> Null]

\* the object after Histogram(): 1920x1080, 8x8 blocks, 16 bins, chromatic
HistogramDefault == \E s \in UninitSizes : s.ySize = 0 /\ Histogram("Chromatic", 1920, 1080, 8, 8, 16, s)

SyncIdle ==
    /\ pc = "idle"
    /\ inFlight = << >>
    /\ toRead = << >>

\* every OpenCL object is taken to be available; nothing printed yet
ErrIdle ==
    /\ unbound = {}
    /\ output = << >>
    /\ failures = << >>

\* no second thread has called a setter
NoSetter == [call |-> "-", at |-> "none"]

ProcessInit ==
    /\ status = "running"
    /\ lastOp = "Histogram"
    /\ deviceOps = << >>
    /\ SyncIdle
    /\ ErrIdle
    /\ setter = NoSetter

GeomIdle ==
    /\ adjusted = << >>
    /\ driver = << >>

StatIdle ==
    /\ refPlane = << >>
    /\ refVisited = << >>
    /\ refDone = {}
    /\ refCombined = << >>

ValIdle == validation = << >>

RefIdle ==
    /\ refInput = << >>
    /\ refIncrement = << >>
    /\ refNumOfBins = 16
    /\ refBins = << >>
    /\ refVarBins = << >>
    /\ refPasses = 0
    /\ refVarPasses = 0
    /\ refOutside = FALSE
    /\ StatIdle
    /\ ValIdle

Init ==
    /\ \E c \in Colors, img \in ImgSizes, blk \in BlockSizes, nb \in BinCounts, s \in UninitSizes :
          Histogram(c, img[1], img[2], blk[1], blk[2], nb, s)
    /\ ProcessInit
    /\ GeomIdle
    /\ RefIdle

Next ==
    \/ setupEnvironment
    \/ \E f \in Frames(sizes.imageSize) : writeInputBuffers(f)
    \/ \E d \in Details : calculateHistograms(d)
    \/ calculateHistogramsDefault
    \/ \E img \in ImgSizes : setImageSize(img[1], img[2])
    \/ \E blk \in BlockSizes : setBlockSize(blk[1], blk[2])
    \/ \E n \in BinCounts : setNumofBins(n)

Spec == Init /\ [][Next]_vars

\* ------------------------------------------------ SpecGeom: the geometry

\* dimension % blockDimension as the build executes it when it does not trap
Rem(a, b) == a - Quot(a, b) * b

\* adjustDimension of histogram_driver_util.hpp (no zero guard)
adjustDimensionFree(dimension, blockDimension) == dimension - Rem(dimension, blockDimension)

Applied(fn, dimension, blockDimension, result) ==
    << [fn |-> fn, dimension |-> dimension, blockDimension |-> blockDimension, result |-> result] >>

\* calculateSizes applied to the constructed configuration
GeomCalculateSizes ==
    /\ status = "running"
    /\ lastOp = "Histogram"
    /\ \/ /\ DivisionByZero(blockWidth, blockHeight)
          /\ Trap("calculateSizes")
       \/ /\ sizes' = calculateSizes(imgWidth, imgHeight, blockWidth, blockHeight)
          /\ lastOp' = "calculateSizes"
          /\ UNCHANGED << environmentSetUp, configVars, elapsedTime, clError, hostVars, inputBufferVars, outputBufferVars, status, deviceOps, geomVars, setter, errVars, refVars >>

\* the geometry lines of the driver's main, for the same dimensions
GeomDriverSizes ==
    /\ status = "running"
    /\ driver = << >>
    /\ lastOp \in {"Histogram", "calculateSizes"}
    /\ \/ /\ DivisionByZero(blockWidth, blockHeight)
          /\ Trap("main")
       \/ /\ driver' = << driverSizes(imgWidth, imgHeight, blockWidth, blockHeight) >>
          /\ lastOp' = "main"
          /\ UNCHANGED << libVars, status, deviceOps, adjusted, refVars, errVars, setter >>

\* Histogram::adjustDimension applied to (imgWidth, blockWidth)
GeomAdjustDimension ==
    /\ status = "running"
    /\ lastOp = "Histogram"
    /\ adjusted' = Applied("Histogram::adjustDimension", imgWidth, blockWidth, adjustDimension(imgWidth, blockWidth))
    /\ lastOp' = "adjustDimension"
    /\ UNCHANGED << libVars, status, deviceOps, driver, refVars, errVars, setter >>

\* the free adjustDimension applied to (imgWidth, blockWidth): dimension % 0 is undefined
GeomAdjustDimensionFree ==
    /\ status = "running"
    /\ lastOp = "Histogram"
    /\ \/ /\ blockWidth = 0
          /\ Trap("adjustDimension")
       \/ /\ adjusted' = Applied("adjustDimension", imgWidth, blockWidth, adjustDimensionFree(imgWidth, blockWidth))
          /\ lastOp' = "adjustDimension"
          /\ UNCHANGED << libVars, status, deviceOps, driver, refVars, errVars, setter >>

InitGeom ==
    /\ \E W \in 0..MaxDim, H \in 0..MaxDim, bw \in 0..MaxDim, bh \in 0..MaxDim, s \in UninitSizes :
          s.ySize = 0 /\ Histogram("Chromatic", W, H, bw, bh, 16, s)
    /\ ProcessInit
    /\ GeomIdle
    /\ RefIdle

NextGeom ==
    \/ GeomCalculateSizes
    \/ GeomDriverSizes
    \/ GeomAdjustDimension
    \/ GeomAdjustDimensionFree

SpecGeom == InitGeom /\ [][NextGeom]_vars

\* ------------------------------------------- SpecRef: the reference binner

\* a histogram write outside the bins vector: the process ends
RefTrap(op) ==
    /\ status' = "crashed"
    /\ lastOp' = op
    /\ UNCHANGED << libVars, deviceOps, geomVars, setter, errVars, refVars >>

\* calculateHistogram(input, numOfBins, bins) on the average bins vector
RefCalculateHistogram ==
    /\ status = "running"
    /\ refPasses < MaxPasses
    /\ \/ /\ HistogramOutOfRange(refInput, refNumOfBins, refBins)
          /\ RefTrap("calculateHistogram")
       \/ /\ refBins' = calculateHistogram(refInput, refNumOfBins, refBins)
          /\ refOutside' = (refOutside \/ HistogramOutOfRange(refInput, refNumOfBins, refBins))
          /\ refPasses' = refPasses + 1
          /\ lastOp' = "calculateHistogram"
          /\ refDone' = refDone \cup {"calculateHistogram"}
          /\ UNCHANGED << libVars, status, deviceOps, geomVars, setter, errVars, syncVars, refInput, refIncrement, refNumOfBins, refVarBins, refVarPasses, refPlane, refVisited, refCombined, valVars >>

\* calculateHistogram(input, numOfBins, bins, increment) on the variance bins vector
RefCalculateHistogramWeighted ==
    /\ status = "running"
    /\ refVarPasses < MaxPasses
    /\ \/ /\ HistogramOutOfRange(refInput, refNumOfBins, refVarBins)
          /\ RefTrap("calculateHistogramWeighted")
       \/ /\ refVarBins' = calculateHistogramWeighted(refInput, refNumOfBins, refVarBins, refIncrement)
          /\ refOutside' = (refOutside \/ HistogramOutOfRange(refInput, refNumOfBins, refVarBins))
          /\ refVarPasses' = refVarPasses + 1
          /\ lastOp' = "calculateHistogramWeighted"
          /\ refDone' = refDone \cup {"calculateHistogramWeighted"}
          /\ UNCHANGED << libVars, status, deviceOps, geomVars, setter, errVars, syncVars, refInput, refIncrement, refNumOfBins, refBins, refPasses, refPlane, refVisited, refCombined, valVars >>

\* the driver's vectors before the histogram passes: per-block averages and
\* variances of one channel, and bins vectors of NUM_OF_BINS zeros
InitRef ==
    /\ HistogramDefault
    /\ ProcessInit
    /\ GeomIdle
    /\ \E k \in 1..MaxBlocks :
          /\ refInput \in [1..k -> AvgValues]
          /\ refIncrement \in [1..k -> VarValues]
    /\ refNumOfBins \in 1..MaxBins
    /\ refBins = ZeroVector(refNumOfBins, 0)
    /\ refVarBins = ZeroVector(refNumOfBins, Zero)
    /\ refPasses = 0
    /\ refVarPasses = 0
    /\ refOutside = FALSE
    /\ StatIdle
    /\ ValIdle

NextRef ==
    \/ RefCalculateHistogram
    \/ RefCalculateHistogramWeighted

SpecRef == InitRef /\ [][NextRef]_vars

(***************************************************************************)
(* Reference block statistics: the driver's calculateAverage and           *)
(* calculateVariance calls on one channel plane, followed by the two       *)
(* histogram passes over their outputs.                                    *)
(***************************************************************************)

\* pixel patterns of the planes the reference functions are applied to
Patterns == { "flat", "ramp", "blocks" }

PlanePixel(pattern, x, y, W, H, bw, bh) ==
    LET nx == W \div bw
        ny == H \div bh
    IN  CASE pattern = "flat" -> ValueRange - 1
          [] pattern = "ramp" -> (5 * (x + y * W) * (x + y * W) + 11) % ValueRange
          [] OTHER -> IF x < nx * bw /\ y < ny * bh
                      THEN (64 * ((x \div bw) + (y \div bh) * nx)) % ValueRange
                      ELSE 7

\* the image vector: `globalOffset` samples of the planes stored before this
\* one, then the plane itself, row after row
PlaneVector(pattern, globalOffset, W, H, bw, bh) ==
    [ n \in 1..(globalOffset + W * H) |->
        IF n <= globalOffset THEN 9
        ELSE PlanePixel(pattern, (n - 1 - globalOffset) % W, (n - 1 - globalOffset) \div W, W, H, bw, bh) ]

\* the arguments main() derives for one channel: numOfBlocks and blockSize from
\* the plane and block dimensions
PlaneArgs(pattern, globalOffset, W, H, bw, bh) ==
    [ imageVector |-> PlaneVector(pattern, globalOffset, W, H, bw, bh),
      globalOffset |-> globalOffset,
      imageWidth |-> W,
      imageHeight |-> H,
      numOfBlocks |-> (W \div bw) * (H \div bh),
      blockSize |-> bw * bh,
      blockWidth |-> bw,
      blockHeight |-> bh ]

StatCalculateAverage ==
    /\ status = "running"
    /\ "calculateAverage" \notin refDone
    /\ LET a == refPlane[1]
       IN  /\ refInput' = calculateAverage(a.imageVector, a.globalOffset, a.imageWidth, a.numOfBlocks, a.blockSize, a.blockWidth, a.blockHeight)
           /\ refVisited' = BlockLoop(a.globalOffset, a.imageWidth, a.numOfBlocks, a.blockSize, a.blockWidth, a.blockHeight)
    /\ refDone' = refDone \cup {"calculateAverage"}
    /\ lastOp' = "calculateAverage"
    /\ UNCHANGED << libVars, status, deviceOps, geomVars, setter, errVars, syncVars, refIncrement, refNumOfBins, refBins, refVarBins, refPasses, refVarPasses, refOutside, refPlane, refCombined, valVars >>

StatCalculateVariance ==
    /\ status = "running"
    /\ "calculateAverage" \in refDone
    /\ "calculateVariance" \notin refDone
    /\ LET a == refPlane[1]
       IN  /\ refIncrement' = calculateVariance(a.imageVector, a.globalOffset, a.imageWidth, a.numOfBlocks, a.blockSize, a.blockWidth, a.blockHeight, refInput)
           /\ refVisited' = BlockLoop(a.globalOffset, a.imageWidth, a.numOfBlocks, a.blockSize, a.blockWidth, a.blockHeight)
    /\ refDone' = refDone \cup {"calculateVariance"}
    /\ lastOp' = "calculateVariance"
    /\ UNCHANGED << libVars, status, deviceOps, geomVars, setter, errVars, syncVars, refInput, refNumOfBins, refBins, refVarBins, refPasses, refVarPasses, refOutside, refPlane, refCombined, valVars >>

StatCalculateAverageAndVariance ==
    /\ status = "running"
    /\ refCombined = << >>
    /\ LET a == refPlane[1]
       IN  refCombined' = << calculateAverageAndVariance(a.imageVector, a.globalOffset, a.imageWidth, a.numOfBlocks, a.blockSize, a.blockWidth, a.blockHeight) >>
    /\ refDone' = refDone \cup {"calculateAverageAndVariance"}
    /\ lastOp' = "calculateAverageAndVariance"
    /\ UNCHANGED << libVars, status, deviceOps, geomVars, setter, errVars, syncVars, refInput, refIncrement, refNumOfBins, refBins, refVarBins, refPasses, refVarPasses, refOutside, refPlane, refVisited, valVars >>

\* main() bins the averages once the averages and variances are computed
StatCalculateHistogram ==
    /\ "calculateVariance" \in refDone
    /\ refPasses = 0
    /\ RefCalculateHistogram

StatCalculateHistogramWeighted ==
    /\ "calculateVariance" \in refDone
    /\ refVarPasses = 0
    /\ RefCalculateHistogramWeighted

\* bin counts the statistics are binned with: NUM_OF_BINS and one more
StatBinCounts == { 16, 3 }

\* positions of the plane inside the image vector
GlobalOffsets == { 0, 1 }

InitStat ==
    /\ HistogramDefault
    /\ ProcessInit
    /\ GeomIdle
    /\ ValIdle
    /\ \E W \in 1..MaxPlaneWidth, H \in 1..MaxPlaneHeight, bw \in 1..MaxBlock, bh \in 1..MaxBlock :
       \E pattern \in Patterns, globalOffset \in GlobalOffsets :
          /\ refPlane = << PlaneArgs(pattern, globalOffset, W, H, bw, bh) >>
          /\ refInput = ZeroVector(refPlane[1].numOfBlocks, Zero)
          /\ refIncrement = ZeroVector(refPlane[1].numOfBlocks, Zero)
    /\ refNumOfBins \in StatBinCounts
    /\ refBins = ZeroVector(refNumOfBins, 0)
    /\ refVarBins = ZeroVector(refNumOfBins, Zero)
    /\ refPasses = 0
    /\ refVarPasses = 0
    /\ refOutside = FALSE
    /\ refVisited = << >>
    /\ refDone = {}
    /\ refCombined = << >>

NextStat ==
    \/ StatCalculateAverage
    \/ StatCalculateVariance
    \/ StatCalculateAverageAndVariance
    \/ StatCalculateHistogram
    \/ StatCalculateHistogramWeighted

SpecStat == InitStat /\ [][NextStat]_vars

(***************************************************************************)
(* The validator applied to one pair of vectors.                           *)
(***************************************************************************)

\* values of the float / double vectors handed to the validator
RealValues == { Zero, Rat(1, 2), Rat(254, 1), Rat(255, 1) }

Elements(T) == IF T = "int" THEN 0..MaxCount ELSE RealValues

ValidateVectorError ==
    /\ status = "running"
    /\ validation # << >>
    /\ ~validation[1].applied
    /\ LET c == validation[1]
           error == ErrorPercent(c.T, c.input, c.validatingVector)
       IN  validation' = << [ c EXCEPT !.applied = TRUE, !.error = error, !.verdict = Classify(error) ] >>
    /\ lastOp' = "validateVectorError"
    /\ UNCHANGED << libVars, status, deviceOps, geomVars, setter, errVars, syncVars, refInput, refIncrement, refNumOfBins, refBins, refVarBins, refPasses, refVarPasses, refOutside, statVars >>

\* main() hands the validator two vectors of the same length: a result of the
\* library and the reference result it was sized with
InitVal ==
    /\ HistogramDefault
    /\ ProcessInit
    /\ GeomIdle
    /\ refInput = << >>
    /\ refIncrement = << >>
    /\ refNumOfBins = 16
    /\ refBins = << >>
    /\ refVarBins = << >>
    /\ refPasses = 0
    /\ refVarPasses = 0
    /\ refOutside = FALSE
    /\ StatIdle
    /\ \E T \in { "int", "real" }, n \in 0..MaxLen :
       \E input \in [1..n -> Elements(T)], validatingVector \in [1..n -> Elements(T)] :
          validation = << [ T |-> T, input |-> input, validatingVector |-> validatingVector,
                            applied |-> FALSE, error |-> Zero, verdict |-> "none" ] >>

NextVal == ValidateVectorError

SpecVal == InitVal /\ [][NextVal]_vars

(***************************************************************************)
(* calculateHistograms(Detail) step by step, with the device completing    *)
(* the commands of the in-order command queue on its own.                  *)
(***************************************************************************)

IsKernel(c) == c.op = "kernel"

Kernels(q) == SelectSeq(q, IsKernel)

\* the device buffer, the element count and the host vector of a read-back
ReadSource(c) ==
    CASE c.buffer = "AverageBuffer" -> [ buffer |-> averageBuffer[c.channel], n |-> NumOfBlocks(sizes, c.channel), host |-> average[c.channel] ]
      [] c.buffer = "VarianceBuffer" -> [ buffer |-> varianceBuffer[c.channel], n |-> NumOfBlocks(sizes, c.channel), host |-> variance[c.channel] ]
      [] c.buffer = "AverageHistBuffer" -> [ buffer |-> averageHistBuffer[c.channel], n |-> numOfBins, host |-> averageBins[c.channel] ]
      [] OTHER -> [ buffer |-> varianceHistBuffer[c.channel], n |-> numOfBins, host |-> varianceBins[c.channel] ]

\* the entry of calculateHistograms(Detail) without "elapsedTime = 0"
\* (ElapsedTimeOfLastCall tells the two apart)
CallBeginNoReset(detail) ==
    /\ status = "running"
    /\ pc = "idle"
    /\ IF ~environmentSetUp
       THEN /\ deviceOps' = << >>
            /\ lastOp' = "calculateHistograms"
            /\ UNCHANGED << elapsedTime, clError, syncVars >>
       ELSE /\ WithinCount
            /\ elapsedTime' = elapsedTime
            /\ clError' = IF DispatchValid(sizes) THEN "CL_SUCCESS" ELSE "CL_INVALID_WORK_GROUP_SIZE"
            /\ inFlight' = IF DispatchValid(sizes)
                           THEN Append(inFlight, Cmd("kernel", KernelName(color, detail), detail))
                           ELSE inFlight
            /\ deviceOps' = << Cmd("kernel", KernelName(color, detail), IF DispatchValid(sizes) THEN "run" ELSE "rejected") >>
            /\ toRead' = ReadCmds(color, detail)
            /\ pc' = "wait"
            /\ lastOp' = "enqueueNDRangeKernel"
    /\ UNCHANGED << environmentSetUp, configVars, sizes, hostVars, inputBufferVars, outputBufferVars, status, geomVars, setter, errVars >>
    /\ UNCHANGED << refInput, refIncrement, refNumOfBins, refBins, refVarBins, refPasses, refVarPasses, refOutside, statVars, valVars >>

\* the entry of calculateHistograms(Detail): the environmentSetUp check, the
\* timer reset, the kernel arguments and enqueueNDRangeKernel
CallBegin(detail) ==
    /\ status = "running"
    /\ pc = "idle"
    /\ IF ~environmentSetUp
       THEN /\ deviceOps' = << >>
            /\ lastOp' = "calculateHistograms"
            /\ UNCHANGED << elapsedTime, clError, syncVars >>
       ELSE /\ WithinCount
            /\ elapsedTime' = 0
            /\ clError' = IF DispatchValid(sizes) THEN "CL_SUCCESS" ELSE "CL_INVALID_WORK_GROUP_SIZE"
            /\ inFlight' = IF DispatchValid(sizes)
                           THEN Append(inFlight, Cmd("kernel", KernelName(color, detail), detail))
                           ELSE inFlight
            /\ deviceOps' = << Cmd("kernel", KernelName(color, detail), IF DispatchValid(sizes) THEN "run" ELSE "rejected") >>
            /\ toRead' = ReadCmds(color, detail)
            /\ pc' = "wait"
            /\ lastOp' = "enqueueNDRangeKernel"
    /\ UNCHANGED << environmentSetUp, configVars, sizes, hostVars, inputBufferVars, outputBufferVars, status, geomVars, setter, errVars >>
    /\ UNCHANGED << refInput, refIncrement, refNumOfBins, refBins, refVarBins, refPasses, refVarPasses, refOutside, statVars, valVars >>

\* the device completes the command at the head of the queue: the kernel
\* writes the output buffers, a read-back writes the host vector
DeviceComplete ==
    /\ status = "running"
    /\ inFlight # << >>
    /\ inFlight' = Tail(inFlight)
    /\ LET c == Head(inFlight)
       IN  IF IsKernel(c)
           THEN /\ averageBuffer' = KernelRun(c.channel, TRUE).averageBuffer
                /\ varianceBuffer' = KernelRun(c.channel, TRUE).varianceBuffer
                /\ averageHistBuffer' = KernelRun(c.channel, TRUE).averageHistBuffer
                /\ varianceHistBuffer' = KernelRun(c.channel, TRUE).varianceHistBuffer
                /\ UNCHANGED hostVars
           ELSE /\ average' = IF c.buffer = "AverageBuffer"
                              THEN [average EXCEPT ![c.channel] = ReadBuffer(ReadSource(c).buffer, ReadSource(c).n, @)]
                              ELSE average
                /\ variance' = IF c.buffer = "VarianceBuffer"
                               THEN [variance EXCEPT ![c.channel] = ReadBuffer(ReadSource(c).buffer, ReadSource(c).n, @)]
                               ELSE variance
                /\ averageBins' = IF c.buffer = "AverageHistBuffer"
                                  THEN [averageBins EXCEPT ![c.channel] = ReadBuffer(ReadSource(c).buffer, ReadSource(c).n, @)]
                                  ELSE averageBins
                /\ varianceBins' = IF c.buffer = "VarianceHistBuffer"
                                   THEN [varianceBins EXCEPT ![c.channel] = ReadBuffer(ReadSource(c).buffer, ReadSource(c).n, @)]
                                   ELSE varianceBins
                /\ UNCHANGED outputBufferVars
    /\ UNCHANGED << environmentSetUp, configVars, elapsedTime, clError, sizes, inputBufferVars, status, lastOp, deviceOps, geomVars, setter, errVars, pc, toRead >>
    /\ UNCHANGED << refInput, refIncrement, refNumOfBins, refBins, refVarBins, refPasses, refVarPasses, refOutside, statVars, valVars >>

EventWaitNoBlock ==
    /\ status = "running"
    /\ pc = "wait"
    /\ \E t \in 1..MaxTime : elapsedTime' = IF deviceOps[1].channel = "run" THEN t ELSE 0
    /\ pc' = IF toRead = << >> THEN "idle" ELSE "read"
    /\ lastOp' = "event.wait"
    /\ UNCHANGED << environmentSetUp, configVars, clError, sizes, hostVars, inputBufferVars, outputBufferVars, status, deviceOps, geomVars, setter, errVars, inFlight, toRead >>
    /\ UNCHANGED << refInput, refIncrement, refNumOfBins, refBins, refVarBins, refPasses, refVarPasses, refOutside, statVars, valVars >>

\* event.wait() returns once the dispatched kernel has completed (at once when
\* the launch was rejected); then the elapsed time is taken from the event
EventWait ==
    /\ status = "running"
    /\ pc = "wait"
    /\ Kernels(inFlight) = << >>
    /\ \E t \in 1..MaxTime : elapsedTime' = IF deviceOps[1].channel = "run" THEN t ELSE 0
    /\ pc' = IF toRead = << >> THEN "idle" ELSE "read"
    /\ lastOp' = "event.wait"
    /\ UNCHANGED << environmentSetUp, configVars, clError, sizes, hostVars, inputBufferVars, outputBufferVars, status, deviceOps, geomVars, setter, errVars, inFlight, toRead >>
    /\ UNCHANGED << refInput, refIncrement, refNumOfBins, refBins, refVarBins, refPasses, refVarPasses, refOutside, statVars, valVars >>

\* enqueueReadBuffer(..., CL_TRUE, ...) is entered: an accepted read-back joins
\* the queue and the host blocks in the call
EnqueueRead ==
    /\ status = "running"
    /\ pc = "read"
    /\ LET c == Head(toRead)
           src == ReadSource(c)
       IN  /\ inFlight' = IF TransferStatus(TRUE, src.buffer, src.n) = "CL_SUCCESS"
                          THEN Append(inFlight, c)
                          ELSE inFlight
           /\ clError' = TransferStatus(TRUE, src.buffer, src.n)
           /\ deviceOps' = Append(deviceOps, c)
    /\ pc' = "blocked"
    /\ lastOp' = "enqueueReadBuffer"
    /\ UNCHANGED << environmentSetUp, configVars, elapsedTime, sizes, hostVars, inputBufferVars, outputBufferVars, status, geomVars, setter, errVars, toRead >>
    /\ UNCHANGED << refInput, refIncrement, refNumOfBins, refBins, refVarBins, refPasses, refVarPasses, refOutside, statVars, valVars >>

\* the blocking enqueueReadBuffer returns once its read-back has completed; after
\* the last one calculateHistograms returns
ReadReturns ==
    /\ status = "running"
    /\ pc = "blocked"
    /\ \A k \in DOMAIN inFlight : inFlight[k] # Head(toRead)
    /\ toRead' = Tail(toRead)
    /\ pc' = IF Tail(toRead) = << >> THEN "idle" ELSE "read"
    /\ lastOp' = IF Tail(toRead) = << >> THEN "calculateHistograms" ELSE "enqueueReadBuffer"
    /\ UNCHANGED << environmentSetUp, configVars, elapsedTime, clError, sizes, hostVars, inputBufferVars, outputBufferVars, status, deviceOps, geomVars, setter, errVars, inFlight >>
    /\ UNCHANGED << refInput, refIncrement, refNumOfBins, refBins, refVarBins, refPasses, refVarPasses, refOutside, statVars, valVars >>

\* the object the calls are made on: a 4x2 frame, 2x2 blocks, 2 bins
InitSync ==
    /\ \E c \in Colors, s \in UninitSizes : Histogram(c, 4, 2, 2, 2, 2, s)
    /\ ProcessInit
    /\ GeomIdle
    /\ RefIdle

\* between two calls of calculateHistograms the caller prepares the object
\* and writes frames
SyncSetupEnvironment == pc = "idle" /\ setupEnvironment

SyncWriteInputBuffers == pc = "idle" /\ \E f \in Frames(sizes.imageSize) : writeInputBuffers(f)

NextSync ==
    \/ SyncSetupEnvironment
    \/ SyncWriteInputBuffers
    \/ \E d \in Details : CallBegin(d)
    \/ DeviceComplete
    \/ EventWait
    \/ EnqueueRead
    \/ ReadReturns

SpecSync == InitSync /\ [][NextSync]_vars

\* --------------------- SpecConf: reconfiguration between and during calls

\* the caller of calculateHistograms reconfigures the object between two calls
\* (image 2x2 has one 2x2 block where image 4x2 has two; block 4x2 fits image 4x2 once)
ConfImgSizes == { << 2, 2 >> }
ConfBlockSizes == { << 4, 2 >> }

ConfSetImageSize == pc = "idle" /\ \E img \in ConfImgSizes : setImageSize(img[1], img[2])

\* a setBlockSize that returns after calculateSizes, the vectors and buffers left
\* as they were (MismatchOnlyWhenInterleaved tells the two apart)
ConfSetBlockSizeSizesOnly ==
    /\ pc = "idle"
    /\ status = "running"
    /\ \E blk \in ConfBlockSizes :
          /\ blockWidth' = blk[1]
          /\ blockHeight' = blk[2]
          /\ sizes' = calculateSizes(imgWidth, imgHeight, blk[1], blk[2])
    /\ lastOp' = "setBlockSize"
    /\ deviceOps' = << >>
    /\ UNCHANGED << environmentSetUp, imgWidth, imgHeight, numOfBins, color, showErrors, elapsedTime, clError, hostVars, inputBufferVars, outputBufferVars, status, geomVars, setter, errVars, refVars >>

ConfSetBlockSize == pc = "idle" /\ \E blk \in ConfBlockSizes : setBlockSize(blk[1], blk[2])

\* the caller starts a call (the behaviours are followed to the end of the call
\* a setter in a second thread has overlapped)
ConfCallBegin(detail) == setter = NoSetter /\ CallBegin(detail)

\* a second thread enters setImageSize(a, b) or setBlockSize(a, b) while the call
\* of calculateHistograms is in progress, the dispatched kernel completed and
\* the read-backs to come: the two assignments and calculateSizes
RaceCalculateSizes(call, a, b) ==
    LET W == IF call = "setImageSize" THEN a ELSE imgWidth
        H == IF call = "setImageSize" THEN b ELSE imgHeight
        bw == IF call = "setBlockSize" THEN a ELSE blockWidth
        bh == IF call = "setBlockSize" THEN b ELSE blockHeight
    IN  /\ status = "running"
        /\ pc # "idle"
        /\ Kernels(inFlight) = << >>
        /\ setter = NoSetter
        /\ \/ /\ DivisionByZero(bw, bh)
              /\ Trap(call)
           \/ /\ imgWidth' = W
              /\ imgHeight' = H
              /\ blockWidth' = bw
              /\ blockHeight' = bh
              /\ sizes' = calculateSizes(W, H, bw, bh)
              /\ setter' = [call |-> call, at |-> "sized"]
              /\ UNCHANGED << environmentSetUp, numOfBins, color, showErrors, elapsedTime, clError, hostVars, inputBufferVars, outputBufferVars, status, lastOp, deviceOps, geomVars, errVars, refVars >>

\* the second thread goes on: createInputBuffers (setImageSize only) and createOutputVectors
RaceCreateOutputVectors ==
    LET v == createOutputVectors(sizes, numOfBins)
        i == createInputBuffers(environmentSetUp, sizes)
    IN  /\ status = "running"
        /\ setter.at = "sized"
        /\ IF setter.call = "setImageSize"
           THEN imageBuffer' = i.imageBuffer /\ numOfBinsBuffer' = i.numOfBinsBuffer
           ELSE UNCHANGED inputBufferVars
        /\ average' = v.average
        /\ variance' = v.variance
        /\ averageBins' = v.averageBins
        /\ varianceBins' = v.varianceBins
        /\ setter' = [setter EXCEPT !.at = "vectors"]
        /\ UNCHANGED << environmentSetUp, configVars, elapsedTime, clError, sizes, outputBufferVars, status, lastOp, deviceOps, geomVars, errVars, refVars >>

\* the second thread runs createOutputBuffers and returns
RaceCreateOutputBuffers ==
    LET o == createOutputBuffers(environmentSetUp, sizes, numOfBins, averageBins, varianceBins)
    IN  /\ status = "running"
        /\ setter.at = "vectors"
        /\ averageBuffer' = o.averageBuffer
        /\ varianceBuffer' = o.varianceBuffer
        /\ averageHistBuffer' = o.averageHistBuffer
        /\ varianceHistBuffer' = o.varianceHistBuffer
        /\ clError' = createOutputBuffersStatus(environmentSetUp, numOfBins)
        /\ setter' = [setter EXCEPT !.at = "done"]
        /\ UNCHANGED << environmentSetUp, configVars, elapsedTime, sizes, hostVars, inputBufferVars, status, lastOp, deviceOps, geomVars, errVars, refVars >>

NextConf ==
    \/ SyncSetupEnvironment
    \/ SyncWriteInputBuffers
    \/ \E d \in Details : ConfCallBegin(d)
    \/ DeviceComplete
    \/ EventWait
    \/ EnqueueRead
    \/ ReadReturns
    \/ ConfSetImageSize
    \/ ConfSetBlockSize
    \/ \E img \in ConfImgSizes : RaceCalculateSizes("setImageSize", img[1], img[2])
    \/ \E blk \in ConfBlockSizes : RaceCalculateSizes("setBlockSize", blk[1], blk[2])
    \/ RaceCreateOutputVectors
    \/ RaceCreateOutputBuffers

SpecConf == InitSync /\ [][NextConf]_vars

\* ------------------------------- SpecLife: the object and its copies

\* a memberwise copy: the copy is prepared when its source is
\* (PreparedLifecycle tells the two apart)
HistogramCopyMemberwise ==
    /\ status = "running"
    /\ elapsedTime' = elapsedTime
    /\ environmentSetUp' = environmentSetUp
    /\ clError' = clError
    /\ lastOp' = IF environmentSetUp THEN "Histogram(prepared)" ELSE "Histogram(unprepared)"
    /\ deviceOps' = << >>
    /\ UNCHANGED << configVars, sizes, hostVars, inputBufferVars, outputBufferVars, status, geomVars, setter, errVars, refVars >>

\* Histogram::Histogram(const Histogram &o); the calls that follow are made on
\* the copy. The copy takes the dimensions, the bin count, the color and
\* showErrors of o; its sizes and clError are not initialised, its vectors are
\* empty and its buffers null. lastOp tells whether o was prepared.
HistogramCopy ==
    /\ status = "running"
    /\ elapsedTime' = 0
    /\ environmentSetUp' = FALSE
    /\ clError' = "unset"
    /\ sizes' \in { u \in UninitSizes : u.ySize = 0 }
    /\ average' = [ch \in Channels |-> << >>]
    /\ variance' = [ch \in Channels |-> << >>]
    /\ averageBins' = [ch \in Channels |-> << >>]
    /\ varianceBins' = [ch \in Channels |-> << >>]
    /\ imageBuffer' = Null
    /\ numOfBinsBuffer' = Null
    /\ averageBuffer' = [ch \in Channels |-> Null]
    /\ varianceBuffer' = [ch \in Channels |-> Null]
    /\ averageHistBuffer' = [ch \in Channels |-> Null]
    /\ varianceHistBuffer' = [ch \in Channels |-> Null]
    /\ lastOp' = IF environmentSetUp THEN "Histogram(prepared)" ELSE "Histogram(unprepared)"
    /\ deviceOps' = << >>
    /\ UNCHANGED << configVars, status, geomVars, setter, errVars, refVars >>

\* the first object: a chromatic 4x2 frame, 2x2 blocks, 2 bins
InitLife ==
    /\ \E s \in UninitSizes : s.ySize = 0 /\ Histogram("Chromatic", 4, 2, 2, 2, 2, s)
    /\ ProcessInit
    /\ GeomIdle
    /\ RefIdle

NextLife ==
    \/ setupEnvironment
    \/ writeInputBuffers([i \in 1..sizes.imageSize |-> 255])
    \/ calculateHistogramsDefault
    \/ \E img \in ConfImgSizes : setImageSize(img[1], img[2])
    \/ \E blk \in ConfBlockSizes : setBlockSize(blk[1], blk[2])
    \/ \E n \in BinCounts : setNumofBins(n)
    \/ \E l \in ErrorLevels : setErrorLevel(l)
    \/ HistogramCopy

SpecLife == InitLife /\ [][NextLife]_vars

\* ------------------------------- SpecErr: device operations that fail

\* the step of setupEnvironment that fails first on the machine the call runs on
\* (getDevices: the platform has no GPU device)
SetupFaults == {"none", "getDevices", "Context", "Build Program"}

KernelNames == {"histogramsKernel", "histogramsDetailKernel", "singleChannelKernel", "singleChannelDetailKernel"}

KernelOrder == << "histogramsKernel", "histogramsDetailKernel", "singleChannelKernel", "singleChannelDetailKernel" >>

\* the device operations of setupEnvironment before calculateSizes, in program order
SetupCmds ==
    << Cmd("query", "devices", "-"), Cmd("create", "context", "-"), Cmd("create", "commandQueue", "-"),
       Cmd("create", "program", "-"), Cmd("build", "program", "-") >>
    \o [k \in 1..4 |-> Cmd("create", KernelOrder[k], "-")]

\* the OpenCL objects left without a valid handle: without a device nothing can
\* be created, without a context neither queue nor program, without a built
\* program no kernel
Unbound(fault) ==
    CASE fault = "none" -> {}
      [] fault = "Build Program" -> KernelNames
      [] fault = "Context" -> {"context", "commandQueue", "program"} \cup KernelNames
      [] OTHER -> {"devices", "context", "commandQueue", "program"} \cup KernelNames

\* the operation returns a negative status
SetupFails(fault, c) ==
    \/ c.buffer \in Unbound(fault)
    \/ c.op = "build" /\ ("program" \in Unbound(fault) \/ fault = "Build Program")

\* the operation's status is stored in clError and tested by
\* "if (showErrors && clError < 0) std::cout << ..."; getDevices and the four
\* cl::Kernel constructors are called without an error argument
Reported(c) == ~(c.op = "query" \/ c.buffer \in KernelNames)

\* std::cout after a call whose failed operations are f
Diagnostics(f) == IF showErrors THEN SelectSeq(f, Reported) ELSE << >>

\* the element count of the buffer a creation or an initialising write is about
AllocSize(s, nb, c) ==
    CASE c.buffer = "imageBuffer" -> s.imageSize
      [] c.buffer = "numOfBinsBuffer" -> 1
      [] c.buffer \in {"AverageBuffer", "VarianceBuffer"} -> NumOfBlocks(s, c.channel)
      [] OTHER -> nb

\* the creations and writes of createInputBuffers and createOutputBuffers that fail
AllocateFailures(hasContext, s, nb) ==
    LET fails(c) == ~hasContext \/ AllocSize(s, nb, c) <= 0
    IN  SelectSeq(createInputBuffersCmds \o createOutputBuffersCmds, fails)

\* Histogram::setupEnvironment on a machine where the step "fault" fails;
\* devices[0] of an empty vector is undefined: the process ends, or the call
\* goes on with a device that is none
ErrSetupEnvironment(fault) ==
    /\ status = "running"
    /\ lastOp' = "setupEnvironment"
    /\ LET f == SelectSeq(SetupCmds, LAMBDA c : SetupFails(fault, c))
       IN  \/ /\ fault = "getDevices"
              /\ status' = "crashed"
              /\ failures' = << Cmd("query", "devices", "-") >>
              /\ output' = << >>
              /\ deviceOps' = << >>
              /\ UNCHANGED << libVars, geomVars, setter, unbound, refVars >>
           \/ /\ DivisionByZero(blockWidth, blockHeight)
              /\ status' = "crashed"
              /\ unbound' = Unbound(fault)
              /\ failures' = f
              /\ output' = Diagnostics(f)
              /\ deviceOps' = << >>
              /\ UNCHANGED << libVars, geomVars, setter, refVars >>
           \/ /\ Allocate("context" \notin Unbound(fault), imgWidth, imgHeight, blockWidth, blockHeight, TRUE)
              /\ environmentSetUp' = TRUE
              /\ unbound' = Unbound(fault)
              /\ failures' = f \o AllocateFailures("context" \notin Unbound(fault), sizes', numOfBins)
              /\ output' = Diagnostics(failures')
              /\ status' = status
              /\ UNCHANGED << configVars, elapsedTime, geomVars, setter, refVars >>

\* Histogram::writeInputBuffers on the command queue setupEnvironment left
ErrWriteInputBuffers(imageVector) ==
    LET hasQueue == environmentSetUp /\ "commandQueue" \notin unbound
        cmds == << Cmd("write", "imageBuffer", "-"), Cmd("write", "numOfBinsBuffer", "-") >>
        st == << TransferStatus(hasQueue, imageBuffer, sizes.imageSize), TransferStatus(hasQueue, numOfBinsBuffer, 1) >>
        f == SelectSeq(cmds, LAMBDA c : Failed(IF c.buffer = "imageBuffer" THEN st[1] ELSE st[2]))
    IN  /\ status = "running"
        /\ imageBuffer' = WriteBuffer(hasQueue, imageBuffer, sizes.imageSize, imageVector)
        /\ numOfBinsBuffer' = WriteBuffer(hasQueue, numOfBinsBuffer, 1, << numOfBins >>)
        /\ clError' = st[2]
        /\ deviceOps' = cmds
        /\ failures' = f
        /\ output' = Diagnostics(f)
        /\ lastOp' = "writeInputBuffers"
        /\ UNCHANGED << environmentSetUp, configVars, elapsedTime, sizes, hostVars, outputBufferVars, status, geomVars, setter, unbound, refVars >>

\* the line calculateHistograms prints when the environment is not set up
NotSetUp == Cmd("print", "Environment not set up", "-")

\* Histogram::calculateHistograms(Detail) with the queue and kernels setupEnvironment left
ErrCalculateHistograms(detail) ==
    LET hasQueue == "commandQueue" \notin unbound
        hasKernel == KernelName(color, detail) \notin unbound
        launch == Cmd("kernel", KernelName(color, detail), "rejected")
        f == (IF hasQueue /\ hasKernel /\ DispatchValid(sizes) THEN << >> ELSE << launch >>)
             \o SelectSeq(ReadCmds(color, detail),
                          LAMBDA c : Failed(TransferStatus(hasQueue, ReadSource(c).buffer, ReadSource(c).n)))
    IN  /\ status = "running"
        /\ lastOp' = "calculateHistograms"
        /\ IF ~environmentSetUp
           THEN /\ deviceOps' = << >>
                /\ failures' = << >>
                /\ output' = << NotSetUp >>
                /\ UNCHANGED << elapsedTime, clError, hostVars, outputBufferVars >>
           ELSE /\ WithinCount
                /\ \E t \in 1..MaxTime : ComputeOn(detail, t, hasQueue, hasKernel)
                /\ failures' = f
                /\ output' = Diagnostics(f)
        /\ UNCHANGED << environmentSetUp, configVars, sizes, inputBufferVars, status, geomVars, setter, unbound, refVars >>

\* Histogram::setErrorLevel; it prints nothing and issues no device operation
ErrSetErrorLevel(errorLevel) ==
    /\ status = "running"
    /\ showErrors' = (errorLevel # "NoError")
    /\ lastOp' = "setErrorLevel"
    /\ deviceOps' = << >>
    /\ failures' = << >>
    /\ output' = << >>
    /\ UNCHANGED << environmentSetUp, imgWidth, imgHeight, blockWidth, blockHeight, numOfBins, color, elapsedTime, clError, sizes, hostVars, inputBufferVars, outputBufferVars, status, geomVars, setter, unbound, refVars >>

\* the object the calls are made on: a 4x2 frame, 2x2 blocks, 2 bins
InitErr ==
    /\ \E c \in Colors, s \in UninitSizes : s.ySize = 0 /\ Histogram(c, 4, 2, 2, 2, 2, s)
    /\ ProcessInit
    /\ GeomIdle
    /\ RefIdle

NextErr ==
    \/ \E fault \in SetupFaults : ErrSetupEnvironment(fault)
    \/ \E f \in Frames(sizes.imageSize) : ErrWriteInputBuffers(f)
    \/ \E d \in Details : ErrCalculateHistograms(d)
    \/ \E l \in ErrorLevels : ErrSetErrorLevel(l)

SpecErr == InitErr /\ [][NextErr]_vars

\* ------------------------------------------------------------ properties

\* n is floor(a / b), stated without division
IsFloor(n, a, b) == n * b <= a /\ a < (n + 1) * b

\* C1: calculateHistograms (either overload) called while environmentSetUp is
\* false is a no-op: it issues no device command (no kernel dispatch, no buffer
\* read) and leaves the result vectors, the histograms, the device output
\* buffers and the elapsed time as they were before the call.
UnpreparedCalculateIsNoOp ==
    [][(lastOp' = "calculateHistograms" /\ ~environmentSetUp) =>
          (/\ deviceOps' = << >>
           /\ UNCHANGED << hostVars, elapsedTime, outputBufferVars >>)]_vars

\* C1 happens: calculateHistograms has returned on an unprepared context whose
\* result vectors exist (allocated by a setter before setupEnvironment)
UnpreparedCalculateReached ==
    /\ status = "running"
    /\ lastOp = "calculateHistograms"
    /\ ~environmentSetUp
    /\ Len(average["Y"]) > 0

\* C2 (as claimed): after each reference calculateHistogram pass over a reused
\* bins vector, the bins hold the histogram of that pass alone, that is the
\* histogram of the input accumulated from zeroed bins.
PassReflectsOnlyItsFrame ==
    (status = "running" /\ refPasses > 0 /\ ~refOutside) =>
        refBins = calculateHistogram(refInput, refNumOfBins, ZeroVector(refNumOfBins, 0))

\* C3: on a prepared context the derived state is the fresh derivation from the
\* current image and block dimensions (plane sizes, imageSize, per-channel block
\* width/height/size/count, launch ranges), every per-block result vector has
\* its channel's block count as length, and right after setImageSize or
\* setBlockSize those vectors are zero-filled.
DerivedStateIsFresh ==
    (status = "running" /\ environmentSetUp) =>
        /\ sizes = calculateSizes(imgWidth, imgHeight, blockWidth, blockHeight)
        /\ \A ch \in Channels :
              /\ Len(average[ch]) = NumOfBlocks(sizes, ch)
              /\ Len(variance[ch]) = NumOfBlocks(sizes, ch)
              /\ lastOp \in {"setImageSize", "setBlockSize"} =>
                    /\ average[ch] = ZeroVector(NumOfBlocks(sizes, ch), Zero)
                    /\ variance[ch] = ZeroVector(NumOfBlocks(sizes, ch), Zero)

\* C3 happens: setBlockSize has returned on a prepared context that had already
\* run a dispatch, and the new geometry has at least one luma block
ResizedAfterDispatch ==
    /\ status = "running"
    /\ environmentSetUp
    /\ lastOp = "setBlockSize"
    /\ elapsedTime > 0
    /\ sizes.yNumOfBlocks > 0

\* C4 (as claimed): in every reachable state of a prepared context each host
\* histogram vector and each device histogram buffer has exactly numOfBins
\* entries, and no read-back of numOfBins entries overruns its host vector.
BinsFollowNumOfBins ==
    (status = "running" /\ environmentSetUp) =>
        \A ch \in Channels :
            /\ Len(averageBins[ch]) = numOfBins
            /\ Len(varianceBins[ch]) = numOfBins
            /\ Len(averageHistBuffer[ch]) = numOfBins
            /\ Len(varianceHistBuffer[ch]) = numOfBins
            /\ ~ReadOverrunsHost(averageHistBuffer[ch], numOfBins, averageBins[ch])
            /\ ~ReadOverrunsHost(varianceHistBuffer[ch], numOfBins, varianceBins[ch])

\* the geometry g is the one the formulas give for the current dimensions
\* (halves and floors stated without division)
GeometryOf(g) ==
    LET W == imgWidth
        H == imgHeight
        cw == CHOOSE n \in 0..imgWidth : 2 * n <= imgWidth /\ imgWidth < 2 * n + 2
        chh == CHOOSE n \in 0..imgHeight : 2 * n <= imgHeight /\ imgHeight < 2 * n + 2
        ubw == CHOOSE n \in 0..blockWidth : 2 * n <= blockWidth /\ blockWidth < 2 * n + 2
        ubh == CHOOSE n \in 0..blockHeight : 2 * n <= blockHeight /\ blockHeight < 2 * n + 2
    IN  /\ g.ySize = W * H
        /\ g.uSize = cw * chh
        /\ g.vSize = cw * chh
        /\ g.imageSize = W * H + 2 * cw * chh
        /\ g.yBlockWidth = blockWidth /\ g.yBlockHeight = blockHeight
        /\ g.uBlockWidth = ubw /\ g.uBlockHeight = ubh
        /\ g.vBlockWidth = ubw /\ g.vBlockHeight = ubh
        /\ g.yBlockSize = blockWidth * blockHeight
        /\ g.uBlockSize = ubw * ubh
        /\ g.vBlockSize = ubw * ubh
        /\ (ubw > 0 /\ ubh > 0) =>
              /\ \E nx \in 0..W, ny \in 0..H :
                    /\ IsFloor(nx, W, blockWidth)
                    /\ IsFloor(ny, H, blockHeight)
                    /\ g.yNumOfBlocks = nx * ny
              /\ \E nx \in 0..cw, ny \in 0..chh :
                    /\ IsFloor(nx, cw, ubw)
                    /\ IsFloor(ny, chh, ubh)
                    /\ g.uNumOfBlocks = nx * ny
                    /\ g.vNumOfBlocks = nx * ny

\* C5: once calculateSizes (and the driver's main) has derived the geometry of
\* image W x H and block bw x bh: luma plane W*H with block bw x bh, each chroma
\* plane (W div 2)*(H div 2) with block (bw div 2) x (bh div 2), block size =
\* block width * block height, imageSize = W*H + 2*(W div 2)*(H div 2), and,
\* where no block dimension is zero, block count = floor(plane width / block
\* width) * floor(plane height / block height).
GeometryFormulas ==
    /\ (status = "running" /\ lastOp = "calculateSizes") => GeometryOf(sizes)
    /\ (status = "running" /\ driver # << >>) => GeometryOf(driver[1])

\* C5 happens: calculateSizes and the driver's main have both derived the
\* geometry of an image with odd dimensions and several blocks per channel
GeometryDerived ==
    /\ status = "running"
    /\ driver # << >>
    /\ sizes.ySize > 0
    /\ driver[1] = [f \in DOMAIN driver[1] |-> sizes[f]]
    /\ imgWidth % 2 = 1
    /\ imgHeight % 2 = 1
    /\ sizes.yNumOfBlocks > 1
    /\ sizes.uNumOfBlocks > 1

\* C6 (as claimed): geometry is derived and storage allocated only for a
\* configuration in which no channel's block width or height is zero and every
\* channel has at least one whole block; any other configuration is rejected.
DegenerateGeometryRejected ==
    (status = "running" /\ lastOp \in {"setupEnvironment", "setImageSize", "setBlockSize"}) =>
        /\ blockWidth \div 2 > 0
        /\ blockHeight \div 2 > 0
        /\ \A ch \in Channels : NumOfBlocks(sizes, ch) > 0

\* C7 (as claimed): each adjustDimension(d, b), library method or free function,
\* returns; for b > 0 its result is d - (d mod b), a multiple of b with
\* 0 <= d - result < b; for b = 0 its result is d.
AdjustDimensionContract ==
    /\ lastOp = "adjustDimension" => status = "running"
    /\ adjusted # << >> =>
          LET a == adjusted[1]
          IN  IF a.blockDimension = 0 THEN a.result = a.dimension
              ELSE /\ a.result = a.dimension - (a.dimension % a.blockDimension)
                   /\ \E k \in 0..a.dimension : a.result = k * a.blockDimension
                   /\ 0 <= a.dimension - a.result
                   /\ a.dimension - a.result < a.blockDimension

\* C8 (as claimed): once a calculateHistogram pass has run over values in
\* [0, 256) with a positive numOfBins, every bin index was in 0..numOfBins-1:
\* no write fell outside the bins vector and none ended the process.
BinIndexWithinBins ==
    lastOp # "Histogram" =>
        /\ status = "running"
        /\ ~refOutside
        /\ \A i \in DOMAIN refInput : BinIndex(refInput[i], refNumOfBins) \in 0..(refNumOfBins - 1)

\* the value v lies in [b * binWidth, (b + 1) * binWidth)
InBin(v, b, binWidth) == b * binWidth * v.den <= v.num /\ v.num < (b + 1) * binWidth * v.den

\* the sum of increment[i] over the i whose input[i] lies in bin b
RECURSIVE SumInBin(_, _, _, _)
SumInBin(input, increment, b, binWidth) ==
    IF input = << >> THEN Zero
    ELSE RatAdd(IF InBin(Head(input), b, binWidth) THEN Head(increment) ELSE Zero,
                SumInBin(Tail(input), Tail(increment), b, binWidth))

\* C9 (as claimed): after one average-histogram pass from zeroed bins the counts
\* sum to the number of blocks and bin b counts the blocks whose average lies
\* in [b * binWidth, (b + 1) * binWidth).
AverageHistogramCounts ==
    (status = "running" /\ refPasses = 1) =>
        /\ IntSum(refBins) = Len(refInput)
        /\ \A b \in 1..refNumOfBins :
              refBins[b] = Cardinality({ i \in DOMAIN refInput :
                                           InBin(refInput[i], b - 1, ValueRange \div refNumOfBins) })

\* C10 (as claimed): after one weighted pass from zeroed bins, bin b is the sum
\* of variance[i] over the blocks whose average[i] lies in bin b, and the bins
\* sum to the sum of variance[i] over all blocks.
WeightedHistogramSums ==
    (status = "running" /\ refVarPasses = 1) =>
        /\ RatSum(refVarBins) = RatSum(refIncrement)
        /\ \A b \in 1..refNumOfBins :
              refVarBins[b] = SumInBin(refInput, refIncrement, b - 1, ValueRange \div refNumOfBins)

\* the set of image vector indices of the rectangle [x, x+w) x [y, y+h) of a
\* plane of width W stored from index globalOffset on
Rectangle(globalOffset, W, x, y, w, h) ==
    { globalOffset + xx + yy * W : xx \in x..(x + w - 1), yy \in y..(y + h - 1) }

ReadSet(v) == { v.reads[n] : n \in DOMAIN v.reads }

\* C11: the reference path enumerates the blocks row-major: block k has its
\* top-left corner at x = blockWidth * (k mod floor(W / blockWidth)),
\* y = blockHeight * (k div floor(W / blockWidth)); the cursor advances x by
\* the block width and wraps to x = 0, y + blockHeight exactly when the next
\* block would exceed the plane width; each block reads exactly the pixels of
\* its rectangle, the rectangles are pairwise disjoint and lie inside the plane
BlocksRowMajor ==
    refVisited # << >> =>
        LET a == refPlane[1]
            W == a.imageWidth
            bw == a.blockWidth
            bh == a.blockHeight
        IN  /\ Len(refVisited) = a.numOfBlocks
            /\ \A b \in DOMAIN refVisited :
                  LET v == refVisited[b]
                  IN  /\ \E nx \in 1..W :
                            /\ IsFloor(nx, W, bw)
                            /\ v.x = bw * ((b - 1) % nx)
                            /\ v.y = bh * ((b - 1) \div nx)
                      /\ v.x >= 0 /\ v.x + bw <= W
                      /\ v.y >= 0 /\ v.y + bh <= a.imageHeight
                      /\ Len(v.reads) = a.blockSize
                      /\ ReadSet(v) = Rectangle(a.globalOffset, W, v.x, v.y, bw, bh)
                      /\ Cardinality(ReadSet(v)) = a.blockSize
            /\ \A b \in DOMAIN refVisited : b < Len(refVisited) =>
                  LET v == refVisited[b]
                      n == refVisited[b + 1]
                  IN  IF v.x + bw + bw > W
                      THEN n.x = 0 /\ n.y = v.y + bh
                      ELSE n.x = v.x + bw /\ n.y = v.y
            /\ \A b1, b2 \in DOMAIN refVisited :
                  b1 # b2 => ReadSet(refVisited[b1]) \cap ReadSet(refVisited[b2]) = {}

\* a plane with a truncated right edge whose blocks span more than one row and
\* more than one column has been walked
BlocksRowMajorReached ==
    /\ refVisited # << >>
    /\ refPlane[1].imageWidth % refPlane[1].blockWidth # 0
    /\ \E b \in DOMAIN refVisited : refVisited[b].x > 0 /\ refVisited[b].y > 0

\* the top-left pixel of block b (1-based) of the plane described by a
BlockCorner(a, b) ==
    LET nx == a.imageWidth \div a.blockWidth
    IN  [ x |-> a.blockWidth * ((b - 1) % nx), y |-> a.blockHeight * ((b - 1) \div nx) ]

\* the pixel values of block b of the plane described by a
BlockValues(a, b) ==
    { a.imageVector[n + 1] :
        n \in Rectangle(a.globalOffset, a.imageWidth, BlockCorner(a, b).x, BlockCorner(a, b).y, a.blockWidth, a.blockHeight) }

\* the value of the first pixel of block b
BlockConstant(a, b) ==
    a.imageVector[a.globalOffset + BlockCorner(a, b).x + BlockCorner(a, b).y * a.imageWidth + 1]

\* C12 (as claimed): for a plane in which every block k is constant with value
\* c_k, average[k] = c_k and variance[k] = 0, the average histogram counts each
\* block in bin floor(c_k / binWidth), and the weighted variance histogram is 0
\* in every bin.
ConstantBlocksStatistics ==
    (/\ refPlane # << >>
     /\ \A b \in 1..refPlane[1].numOfBlocks : Cardinality(BlockValues(refPlane[1], b)) = 1) =>
        LET a == refPlane[1]
            binWidth == ValueRange \div refNumOfBins
        IN  /\ "calculateAverage" \in refDone =>
                  \A b \in 1..a.numOfBlocks : refInput[b] = Rat(BlockConstant(a, b), 1)
            /\ "calculateVariance" \in refDone =>
                  \A b \in 1..a.numOfBlocks : refIncrement[b] = Zero
            /\ status = "running"
            /\ refPasses = 1 =>
                  /\ IntSum(refBins) = a.numOfBlocks
                  /\ \A bin \in 1..refNumOfBins :
                        refBins[bin] = Cardinality({ b \in 1..a.numOfBlocks :
                                                       BlockConstant(a, b) \div binWidth = bin - 1 })
            /\ refVarPasses = 1 => \A bin \in 1..refNumOfBins : refVarBins[bin] = Zero

\* the plane of a, pixel by pixel, with the pixels outside the whole blocks
\* (the truncated right and bottom edges) replaced by 0
WholeBlockPixels(a) ==
    [ n \in 1..(a.imageWidth * a.imageHeight) |->
        IF /\ (n - 1) % a.imageWidth < (a.imageWidth \div a.blockWidth) * a.blockWidth
           /\ (n - 1) \div a.imageWidth < (a.imageHeight \div a.blockHeight) * a.blockHeight
        THEN a.imageVector[a.globalOffset + n]
        ELSE 0 ]

\* C13: the sum over all blocks of blockSize * average[block] equals the sum of
\* the pixels that lie inside whole blocks: pixels in the truncated edges are
\* excluded and every other pixel is counted exactly once
AveragesSumToWholeBlockPixels ==
    (refPlane # << >> /\ "calculateAverage" \in refDone) =>
        LET a == refPlane[1]
        IN  /\ Len(refInput) = a.numOfBlocks
            /\ \A b \in DOMAIN refInput : refInput[b].den > 0
            /\ RatSum([ b \in DOMAIN refInput |-> Rat(a.blockSize * refInput[b].num, refInput[b].den) ])
                 = Rat(IntSum(WholeBlockPixels(a)), 1)

\* the averages of a plane of several varying blocks with truncated right and
\* bottom edges have been computed
AveragesSumReached ==
    /\ refPlane # << >>
    /\ "calculateAverage" \in refDone
    /\ refPlane[1].numOfBlocks >= 2
    /\ refPlane[1].blockSize >= 2
    /\ refPlane[1].imageWidth % refPlane[1].blockWidth # 0
    /\ refPlane[1].imageHeight % refPlane[1].blockHeight # 0
    /\ \E b \in DOMAIN refInput : refInput[b].den > 1

\* the pixels of block b of the plane described by a, row after row
BlockSamples(a, b) ==
    [ k \in 1..(a.blockWidth * a.blockHeight) |->
        a.imageVector[a.globalOffset + (BlockCorner(a, b).x + ((k - 1) % a.blockWidth))
                      + (BlockCorner(a, b).y + ((k - 1) \div a.blockWidth)) * a.imageWidth + 1] ]

\* the population mean of the samples p: sum / n
PopulationMean(p) == Rat(IntSum(p), Len(p))

\* the population variance of the samples p: sum of (p[k] - sum/n)^2 over n,
\* written over the common denominator n^3
PopulationVariance(p) ==
    Rat(IntSum([ k \in DOMAIN p |-> (Len(p) * p[k] - IntSum(p)) * (Len(p) * p[k] - IntSum(p)) ]),
        Len(p) * Len(p) * Len(p))

\* C14: variance[k] * blockSize equals the sum over the pixels of block k of
\* (pixel - average[k])^2, the population variance with divisor blockSize
\* (never blockSize - 1), where average[k] is the block's sum / blockSize; in
\* calculateVariance after calculateAverage and in calculateAverageAndVariance
PopulationVarianceComputed ==
    refPlane # << >> =>
        LET a == refPlane[1]
        IN  /\ "calculateVariance" \in refDone =>
                  \A b \in 1..a.numOfBlocks :
                     /\ refInput[b] = PopulationMean(BlockSamples(a, b))
                     /\ refIncrement[b] = PopulationVariance(BlockSamples(a, b))
            /\ refCombined # << >> =>
                  /\ Len(refCombined[1].average) = a.numOfBlocks
                  /\ Len(refCombined[1].variance) = a.numOfBlocks
                  /\ \A b \in 1..a.numOfBlocks :
                        /\ refCombined[1].average[b] = PopulationMean(BlockSamples(a, b))
                        /\ refCombined[1].variance[b] = PopulationVariance(BlockSamples(a, b))

\* both variance paths have run on a plane with a block of at least two pixels
\* whose pixels differ and whose average is not an integer
PopulationVarianceReached ==
    /\ refPlane # << >>
    /\ "calculateVariance" \in refDone
    /\ refCombined # << >>
    /\ refPlane[1].blockSize >= 2
    /\ \E b \in DOMAIN refIncrement :
          /\ refIncrement[b].num > 0
          /\ refInput[b].den > 1
          /\ refCombined[1].variance[b].num > 0

\* the element v of a vector of the instantiation T as a real number
AsReal(T, v) == IF T = "int" THEN Rat(v, 1) ELSE v

\* the sum over the indices i with reference[i] # 0 of
\* |reference[i] - candidate[i]| / reference[i]
RelativeErrorSum(T, candidate, reference) ==
    RatSum([ i \in DOMAIN reference |->
               IF AsReal(T, reference[i]) = Zero THEN Zero
               ELSE RatDiv(RatAbsDiff(AsReal(T, reference[i]), AsReal(T, candidate[i])),
                           AsReal(T, reference[i])) ])

\* C15 (as claimed): validateVectorError computes error = (sum over the indices
\* i with reference[i] # 0 of |reference[i] - candidate[i]| / reference[i])
\* / length * 100; indices whose reference value is 0 contribute nothing, and
\* the divisor is the full vector length.
ValidatorErrorFormula ==
    (validation # << >> /\ validation[1].applied /\ Len(validation[1].input) > 0) =>
        LET c == validation[1]
            sum == RelativeErrorSum(c.T, c.input, c.validatingVector)
        IN  c.error = Rat(100 * sum.num, sum.den * Len(c.input))

\* the candidate differs from the reference at index i alone, by exactly the
\* reference value there, which is not 0
SingleElementOff(T, candidate, reference, i) ==
    /\ AsReal(T, reference[i]) # Zero
    /\ RatAbsDiff(AsReal(T, reference[i]), AsReal(T, candidate[i])) = AsReal(T, reference[i])
    /\ \A j \in DOMAIN reference : j # i => candidate[j] = reference[j]

\* C16 (as claimed): error == 0 is classified Pass, 0 < error < 1
\* Pass-with-warning and error >= 1 Fail; identical reference and candidate
\* vectors give error 0 and Pass; a candidate differing from the reference in a
\* single element, by exactly the reference value at a non-zero reference
\* index, gives an error of 100 / length percent.
ValidatorClassification ==
    (validation # << >> /\ validation[1].applied) =>
        LET c == validation[1]
        IN  /\ c.error.den # 0 =>
                  /\ c.error.num = 0 => c.verdict = "PASS"
                  /\ (0 < c.error.num /\ c.error.num < c.error.den) => c.verdict = "PASS... Error"
                  /\ c.error.num >= c.error.den => c.verdict = "FAIL... Error"
            /\ c.input = c.validatingVector => (c.error = Zero /\ c.verdict = "PASS")
            /\ \A i \in DOMAIN c.input :
                  SingleElementOff(c.T, c.input, c.validatingVector, i) =>
                      c.error = Rat(100, Len(c.input))

\* C17 (as claimed): for block width and height >= 2, globalRange is an exact
\* multiple of localRange in each dimension, and the number of work-groups
\* (globalRange / localRange per dimension, multiplied) equals the block count
\* of each active channel: yNumOfBlocks, and uNumOfBlocks = vNumOfBlocks in
\* chromatic mode.
WorkGroupsMatchBlocks ==
    (status = "running" /\ lastOp = "calculateSizes" /\ blockWidth >= 2 /\ blockHeight >= 2) =>
        \E gx \in 0..imgWidth, gy \in 0..imgHeight :
            /\ sizes.localRange[1] > 0 /\ sizes.localRange[2] > 0
            /\ sizes.globalRange[1] = gx * sizes.localRange[1]
            /\ sizes.globalRange[2] = gy * sizes.localRange[2]
            /\ gx * gy = sizes.yNumOfBlocks
            /\ color = "Chromatic" =>
                  (gx * gy = sizes.uNumOfBlocks /\ gx * gy = sizes.vNumOfBlocks)

\* at most one dispatch is in flight; no read-back has been issued while the
\* dispatch is in flight; at most one command is outstanding (every read-back
\* is blocking); the host is past event.wait() only once the dispatch has
\* completed; nothing is in flight when the call has returned
SyncInvariant ==
    /\ Len(Kernels(inFlight)) <= 1
    /\ Kernels(inFlight) # << >> => Len(inFlight) = 1
    /\ Len(inFlight) <= 1
    /\ pc \in { "read", "blocked" } => Kernels(inFlight) = << >>
    /\ Kernels(inFlight) # << >> => pc = "wait"
    /\ pc = "idle" => (inFlight = << >> /\ toRead = << >>)

\* a result vector changes inside calculateHistograms only while the host is
\* blocked in a read-back issued after the dispatch of the call, with no
\* dispatch in flight
ResultsAfterCompletion ==
    (hostVars' # hostVars /\ lastOp' # "setupEnvironment") =>
        /\ pc = "blocked"
        /\ Kernels(inFlight) = << >>
        /\ deviceOps # << >> /\ IsKernel(deviceOps[1])
        /\ Len(inFlight) = 1 /\ Head(inFlight) = deviceOps[Len(deviceOps)]

IsHistRead(c) == c.op = "read" /\ c.buffer \in { "AverageHistBuffer", "VarianceHistBuffer" }

IsDetailRead(c) == c.op = "read" /\ c.buffer \in { "AverageBuffer", "VarianceBuffer" }

\* the (buffer, channel) pairs of the commands of q that satisfy Test
Targets(q, Test(_)) == { << q[k].buffer, q[k].channel >> : k \in { n \in DOMAIN q : Test(q[n]) } }

\* C19: a call with Detail::Exclude (also the no-argument overload) leaves the
\* per-block average and variance vectors of every channel unchanged and reads
\* back only histograms; a call with Detail::Include additionally fills the
\* average and variance vectors of every active channel from the device; the
\* set of histograms read back is the same in both modes
DetailSelectsVectors ==
    [][/\ (calculateHistogramsDefault \/ calculateHistograms("Exclude")) =>
              /\ UNCHANGED << average, variance >>
              /\ environmentSetUp =>
                    /\ Targets(deviceOps', IsDetailRead) = {}
                    /\ Targets(deviceOps', IsHistRead)
                         = { "AverageHistBuffer", "VarianceHistBuffer" } \X ActiveChannels(color)
       /\ (calculateHistograms("Include") /\ environmentSetUp) =>
              /\ Targets(deviceOps', IsDetailRead)
                   = { "AverageBuffer", "VarianceBuffer" } \X ActiveChannels(color)
              /\ Targets(deviceOps', IsHistRead)
                   = { "AverageHistBuffer", "VarianceHistBuffer" } \X ActiveChannels(color)
              /\ \A ch \in ActiveChannels(color) :
                    /\ average'[ch] = averageBuffer'[ch]
                    /\ variance'[ch] = varianceBuffer'[ch]
              /\ \A ch \in Channels \ ActiveChannels(color) :
                    /\ average'[ch] = average[ch]
                    /\ variance'[ch] = variance[ch]]_vars

\* a call with Detail::Include has filled the average and variance vectors of a
\* written chromatic frame with several blocks per channel
DetailSelectsVectorsReached ==
    /\ status = "running"
    /\ lastOp = "calculateHistograms"
    /\ environmentSetUp
    /\ deviceOps # << >>
    /\ deviceOps[1] = Cmd("kernel", "histogramsDetailKernel", "run")
    /\ InputsWritten(imageBuffer, numOfBinsBuffer)
    /\ Len(average["Y"]) > 1
    /\ \E b \in DOMAIN average["Y"] : average["Y"][b].num > 0
    /\ \E b \in DOMAIN variance["Y"] : variance["Y"][b].num > 0
    /\ Len(average["U"]) > 0

IsRead(c) == c.op = "read"

\* C20: in Grayscale mode only the Y channel is computed and read back: the U
\* and V average and variance vectors and both of their histograms are left
\* unchanged by the call; in Chromatic mode Y, U and V are all read back from
\* the same single dispatch
ColorSelectsChannels ==
    [][(lastOp' = "calculateHistograms" /\ environmentSetUp) =>
          /\ Len(Kernels(deviceOps')) = 1
          /\ IsKernel(deviceOps'[1])
          /\ color = "Grayscale" =>
                /\ \A k \in DOMAIN deviceOps' : IsRead(deviceOps'[k]) => deviceOps'[k].channel = "Y"
                /\ Targets(deviceOps', IsHistRead) = { "AverageHistBuffer", "VarianceHistBuffer" } \X { "Y" }
                /\ \A ch \in { "U", "V" } :
                      /\ average'[ch] = average[ch]
                      /\ variance'[ch] = variance[ch]
                      /\ averageBins'[ch] = averageBins[ch]
                      /\ varianceBins'[ch] = varianceBins[ch]
                      /\ averageBuffer'[ch] = averageBuffer[ch]
                      /\ varianceBuffer'[ch] = varianceBuffer[ch]
                      /\ averageHistBuffer'[ch] = averageHistBuffer[ch]
                      /\ varianceHistBuffer'[ch] = varianceHistBuffer[ch]
          /\ color = "Chromatic" =>
                /\ Targets(deviceOps', IsHistRead) = { "AverageHistBuffer", "VarianceHistBuffer" } \X Channels
                /\ Targets(deviceOps', IsDetailRead) \in { {}, { "AverageBuffer", "VarianceBuffer" } \X Channels }
                /\ \A k \in DOMAIN deviceOps' : IsRead(deviceOps'[k]) => k > 1]_vars

\* a Grayscale call has run its kernel on a written frame: the Y histogram
\* counts blocks while the allocated U histogram is still all zero
ColorSelectsChannelsReached ==
    /\ status = "running"
    /\ lastOp = "calculateHistograms"
    /\ environmentSetUp
    /\ color = "Grayscale"
    /\ deviceOps # << >>
    /\ deviceOps[1].channel = "run"
    /\ InputsWritten(imageBuffer, numOfBinsBuffer)
    /\ IntSum(averageBins["Y"]) > 0
    /\ Len(averageBins["U"]) > 0
    /\ IntSum(averageBins["U"]) = 0
    /\ sizes.uNumOfBlocks > 0

\* C21: a device operation that fails in setupEnvironment, writeInputBuffers, buffer
\* creation or calculateHistograms is reported on the diagnostic output exactly
\* when showErrors is set, and it never ends the process: setupEnvironment still
\* ends with environmentSetUp = TRUE
FailuresReportedNeverFatal ==
    /\ status = "running"
    /\ lastOp = "setupEnvironment" => environmentSetUp
    /\ lastOp \in {"setupEnvironment", "writeInputBuffers"} \/ (lastOp = "calculateHistograms" /\ environmentSetUp)
          => output = IF showErrors THEN failures ELSE << >>


\* the read-back the call is blocked in transfers a number of elements that is
\* not the length of the host vector it writes, or reads a buffer of another length
ReadMismatch ==
    /\ pc = "blocked"
    /\ LET src == ReadSource(Head(toRead))
       IN  src.n # Len(src.host) \/ Len(src.buffer) # Len(src.host)

\* C22: a read-back whose element count or buffer does not match the result
\* vector it writes occurs only when setImageSize or setBlockSize has run while a
\* call of calculateHistograms was in progress; with every configuration call
\* between two computation calls there is none
MismatchOnlyWhenInterleaved == ReadMismatch => setter.at # "none"

\* a mismatched read-back is reached when a setter is interleaved with the call
MismatchReached == ReadMismatch /\ status = "running" /\ setter.at # "none"


\* the image vector with every sample outside the plane [o, o + n) set to
\* `value`, and one more sample of a following plane appended
Repaint(imageVector, o, n, value) ==
    [ k \in 1..(Len(imageVector) + 1) |->
        IF k - 1 >= o /\ k - 1 < o + n THEN imageVector[k] ELSE value ]

\* sample values given to the other planes
OtherPlaneValues == { 0, 200 }

\* C23: every pixel index calculateAverage and calculateVariance read for a
\* channel at offset o lies in [o, o + W * H), and the average and variance
\* vectors are the same whatever the samples of the other planes are
PlaneIndependent ==
    refPlane # << >> =>
        LET a == refPlane[1]
            o == a.globalOffset
            n == a.imageWidth * a.imageHeight
            other(value) == Repaint(a.imageVector, o, n, value)
        IN  /\ \A b \in DOMAIN refVisited : \A k \in DOMAIN refVisited[b].reads :
                  refVisited[b].reads[k] >= o /\ refVisited[b].reads[k] < o + n
            /\ "calculateAverage" \in refDone =>
                  \A value \in OtherPlaneValues :
                     calculateAverage(other(value), o, a.imageWidth, a.numOfBlocks, a.blockSize, a.blockWidth, a.blockHeight) = refInput
            /\ "calculateVariance" \in refDone =>
                  \A value \in OtherPlaneValues :
                     calculateVariance(other(value), o, a.imageWidth, a.numOfBlocks, a.blockSize, a.blockWidth, a.blockHeight, refInput) = refIncrement

\* both passes have run over a plane that follows another plane and whose last
\* block ends at the last sample of the plane
PlaneIndependentReached ==
    /\ refPlane # << >>
    /\ refPlane[1].globalOffset > 0
    /\ {"calculateAverage", "calculateVariance"} \subseteq refDone
    /\ refPlane[1].numOfBlocks >= 2
    /\ refPlane[1].imageWidth % refPlane[1].blockWidth = 0
    /\ refPlane[1].imageHeight % refPlane[1].blockHeight = 0
    /\ \E k \in DOMAIN refIncrement : refIncrement[k].num # 0
    /\ refVisited # << >>


\* C25: calculateAverageAndVariance writes, for every block k, the average[k] and
\* variance[k] that calculateAverage followed by calculateVariance write for the
\* same plane, offset and block geometry
CombinedPassAgrees ==
    {"calculateAverage", "calculateVariance", "calculateAverageAndVariance"} \subseteq refDone =>
        /\ Len(refCombined[1].average) = Len(refInput)
        /\ Len(refCombined[1].variance) = Len(refIncrement)
        /\ \A k \in DOMAIN refInput :
              /\ refCombined[1].average[k] = refInput[k]
              /\ refCombined[1].variance[k] = refIncrement[k]

\* the three functions have run over a plane of several blocks of unequal
\* statistics
CombinedPassAgreesReached ==
    /\ {"calculateAverage", "calculateVariance", "calculateAverageAndVariance"} \subseteq refDone
    /\ Len(refInput) >= 2
    /\ refInput[1] # refInput[2]
    /\ \E k \in DOMAIN refIncrement : refIncrement[k].num # 0


\* between the dispatch and the return of event.wait() the timer reads 0, and
\* it never exceeds the duration of one dispatch
ElapsedInvariant ==
    /\ elapsedTime \in 0..MaxTime
    /\ pc = "wait" => elapsedTime = 0

\* elapsedTime changes only at the entry of a prepared call (to 0) and at the
\* return of event.wait() (to the duration of the dispatch that call made)
ElapsedStep ==
    /\ elapsedTime' # elapsedTime => (pc = "idle" /\ pc' = "wait") \/ (pc = "wait" /\ pc' # "wait")
    /\ pc = "idle" /\ pc' = "wait" => elapsedTime' = 0
    /\ pc = "wait" /\ pc' # "wait" /\ deviceOps[1].channel = "run" => elapsedTime' \in 1..MaxTime
    /\ lastOp' = "writeInputBuffers" => elapsedTime' = elapsedTime

\* C24: getElapsedTime returns the time of the most recently completed call of
\* calculateHistograms only: a call that passes the environmentSetUp check sets
\* elapsedTime to 0 before it dispatches and then stores the duration of that
\* dispatch; nothing is added up across calls and writeInputBuffers leaves it alone
ElapsedTimeOfLastCall == []ElapsedInvariant /\ [][ElapsedStep]_vars

\* a call has reset the timer after an earlier call had read back its results
ElapsedTimeOfLastCallReached ==
    /\ pc = "wait"
    /\ elapsedTime = 0
    /\ averageBins["Y"] # << >>
    /\ IntSum(averageBins["Y"]) # 0


\* C26 (as claimed): validateVectorError reports error 0 and plain PASS only if
\* candidate[i] = reference[i] at every index i where reference[i] # 0, in the
\* real instantiation and in the int instantiation alike
ZeroErrorMeansEqual ==
    (validation # << >> /\ validation[1].applied /\ validation[1].verdict = "PASS") =>
        LET c == validation[1]
        IN  /\ c.error = Zero
            /\ \A i \in DOMAIN c.validatingVector :
                  NonZero(c.T, c.validatingVector[i]) => c.input[i] = c.validatingVector[i]


\* C27 (as claimed): on a prepared context, after any sequence of public calls,
\* a dispatch of calculateHistograms runs on input buffers that have been
\* written by writeInputBuffers since they were created
DispatchReadsWrittenFrame ==
    (lastOp = "calculateHistograms" /\ deviceOps # << >> /\ deviceOps[1].channel = "run") =>
        InputsWritten(imageBuffer, numOfBinsBuffer)


Constructors == {"Histogram", "Histogram(prepared)", "Histogram(unprepared)"}

\* a freshly constructed object is unprepared and its timer reads 0; a copy has no results
FreshIsUnprepared ==
    /\ lastOp \in Constructors => ~environmentSetUp /\ elapsedTime = 0
    /\ lastOp \in Constructors \ {"Histogram"} =>
          \A ch \in Channels :
             average[ch] = << >> /\ variance[ch] = << >> /\ averageBins[ch] = << >> /\ varianceBins[ch] = << >>

\* the copy carries the configuration and showErrors of its source; on one
\* object environmentSetUp changes only in setupEnvironment, to true
LifecycleStep ==
    /\ lastOp' \in Constructors => configVars' = configVars
    /\ (lastOp' \notin Constructors /\ environmentSetUp' # environmentSetUp) =>
          lastOp' = "setupEnvironment" /\ environmentSetUp'
    /\ (lastOp' = "setupEnvironment" /\ status' = "running") => environmentSetUp'
    /\ (lastOp' \notin Constructors /\ environmentSetUp) => environmentSetUp'

\* C29: environmentSetUp is false after every constructor, the copy constructor
\* included (the copy of a prepared object has its configuration and showErrors,
\* elapsed time 0 and no results, and is unprepared); it becomes true only at the
\* end of setupEnvironment, and setImageSize, setBlockSize, setNumofBins,
\* setErrorLevel, writeInputBuffers and calculateHistograms never change it
PreparedLifecycle == []FreshIsUnprepared /\ [][LifecycleStep]_vars

\* a prepared object that shows errors and has been reconfigured since its
\* construction has been copied
PreparedLifecycleReached ==
    /\ lastOp = "Histogram(prepared)"
    /\ showErrors
    /\ numOfBins = 4
    /\ blockWidth = 4


\* calculateSizes and the geometry lines of main have both run
BothDerived == status = "running" /\ driver # << >> /\ sizes.globalRange # << >>

\* C30: for every image size and block size the plane sizes, block dimensions
\* and block counts main derives per channel are those Histogram::calculateSizes
\* derives, so each result vector of the library has the length of the reference
\* vector validateVectorError compares it with, index by index
SameGeometry ==
    BothDerived =>
        /\ \A f \in DOMAIN driver[1] : driver[1][f] = sizes[f]
        /\ \A ch \in Channels :
              LET lib == createOutputVectors(sizes, numOfBins)
                  ref == ZeroVector(NumOfBlocks(driver[1], ch), Zero)
              IN  /\ Len(lib.average[ch]) = Len(ref)
                  /\ Len(lib.variance[ch]) = Len(ref)
                  /\ \A i \in DOMAIN lib.average[ch] : i \in DOMAIN ref

\* both have derived the geometry of an image whose luma and chroma planes hold
\* different numbers of blocks, the chroma plane losing a column to the halving
SameGeometryReached ==
    /\ BothDerived
    /\ imgWidth % 2 = 1
    /\ sizes.uNumOfBlocks >= 2
    /\ sizes.yNumOfBlocks # sizes.uNumOfBlocks
    /\ lastOp = "main"


====
